---------------------------- MODULE Spec2Model ----------------------------
(***************************************************************************)
(* Model of the isomorphic translation system: the glossary (P8), the      *)
(* per-sentence orchestrator (P3), the nucleus and particle resolvers      *)
(* (P4, P5), the difficult-case strategies (P6) and the syntactic repair   *)
(* cascade (P7).                                                           *)
(*                                                                         *)
(* Python None is NULL; an empty string is "".  Both are falsy.            *)
(***************************************************************************)
EXTENDS Integers, Sequences, FiniteSets, TLC

\* ------------------------------------------------------------------------
\* Bounds of the model
\* ------------------------------------------------------------------------
\* longest sentence handed to the core, in tokens
MaxLen == 2
\* longest glossary history kept (operations that would exceed it are not taken)
MaxHist == 4

NULL == "<None>"

Truthy(x) == x # NULL /\ x # ""

\* F(v) with v evaluated once, as a Python local variable holds one value
Sea(v, F(_)) == CHOOSE y \in {F(x) : x \in {v}} : TRUE

\* ------------------------------------------------------------------------
\* Vocabulary
\* ------------------------------------------------------------------------
\* source tokens of the model: two nuclei ("nafs" has several candidates,
\* "zzz" has none) and two particles ("bi" has candidates, "law" has none)
Tokens == {"nafs", "zzz", "bi", "law"}

\* the particle lists of the classifier; the members written with
\* diacritics in the source lie outside the model's alphabet and are left out
Preposiciones == {"bi", "li", "fi", "min", "bayna", "fawqa"}
Conjunciones == {"wa", "fa", "aw", "am", "bal", "inna", "anna", "law", "in"}
Pronombres == {"huwa", "hiya", "hum", "hunna", "anta", "anti", "antum", "antunna"}
Articulos == {"al"}
Relativos == {"man", "ayy"}

\* ClasificadorGramatical.clasificar: <<TokenCategoria, CategoriaGramatical>>
Clasificar(token) ==
    IF token \in Preposiciones THEN <<"PARTICULA", "PREPOSICION">>
    ELSE IF token \in Conjunciones THEN <<"PARTICULA", "CONJUNCION">>
    ELSE IF token \in Pronombres THEN <<"PARTICULA", "PRONOMBRE">>
    ELSE IF token \in Articulos THEN <<"PARTICULA", "ARTICULO">>
    ELSE IF token \in Relativos THEN <<"PARTICULA", "PRONOMBRE">>
    ELSE <<"NUCLEO", "SUSTANTIVO">>

FuncRoles == {"COPULA", "REGIMEN", "DETERMINACION", "NEXO_LOGICO",
              "MARCA_CASUAL", "ADVERBIAL", "RELATIVO"}

\* all sequences over S of length 1..n
SeqsHasta(S, n) == UNION {[1..k -> S] : k \in 1..n}

Rango(s) == {s[i] : i \in DOMAIN s}

\* ------------------------------------------------------------------------
\* Text: a text is a sequence of one-character strings
\* ------------------------------------------------------------------------
\* the characters matched by the regular expression class \w
PalabraChars == {"a", "b", "c", "d", "e", "f", "g", "h", "i", "j", "k", "l", "m",
                 "n", "o", "p", "q", "r", "s", "t", "u", "v", "w", "x", "y", "z", "_"}

\* "~" stands for an Arabic vocalisation mark (U+064B..U+0652): inside the
\* range U+0600..U+06FF that the tokenizer accepts, outside the class \w
Marcas == {"~"}

Alfabeto == PalabraChars \cup Marcas \cup {" ", "-"}

\* the spelling of the words of the model
Letras(w) ==
    CASE w = "nafs" -> <<"n", "a", "f", "s">>
      [] w = "zzz" -> <<"z", "z", "z">>
      [] w = "bi" -> <<"b", "i">>
      [] w = "law" -> <<"l", "a", "w">>
      [] w = "ka~ta" -> <<"k", "a", "~", "t", "a">>
      [] w = "kalima" -> <<"k", "a", "l", "i", "m", "a">>
      [] w = "anim-" -> <<"a", "n", "i", "m", "-">>
      [] w = "spirit-" -> <<"s", "p", "i", "r", "i", "t", "-">>
      [] w = "psych-" -> <<"p", "s", "y", "c", "h", "-">>
      [] w = "parabola-" -> <<"p", "a", "r", "a", "b", "o", "l", "a", "-">>
      [] w = "verb-" -> <<"v", "e", "r", "b", "-">>

RECURSIVE Unir(_)
\* "".join(chars)
Unir(chars) == IF chars = <<>> THEN "" ELSE Head(chars) \o Unir(Tail(chars))

RECURSIVE UnirCon(_, _)
\* sep.join(partes)
UnirCon(sep, partes) ==
    IF partes = <<>> THEN ""
    ELSE IF Len(partes) = 1 THEN partes[1]
    ELSE partes[1] \o sep \o UnirCon(sep, Tail(partes))

RECURSIVE TextoDe(_)
\* " ".join(words), as characters
TextoDe(words) ==
    IF words = <<>> THEN <<>>
    ELSE IF Len(words) = 1 THEN Letras(words[1])
    ELSE Letras(words[1]) \o <<" ">> \o TextoDe(Tail(words))

RECURSIVE Trozos(_, _, _)
\* re.findall of the maximal runs of characters of class C (cur: the run so far)
Trozos(texto, C, cur) ==
    LET cierre == IF cur = <<>> THEN <<>> ELSE <<Unir(cur)>>
    IN IF texto = <<>> THEN cierre
       ELSE IF Head(texto) \in C THEN Trozos(Tail(texto), C, Append(cur, Head(texto)))
       ELSE cierre \o Trozos(Tail(texto), C, <<>>)

\* Tokenizador.tokenizar: pattern [\w\u0600-\u06FF\u0750-\u077F]+
Tokenizar(texto) == Trozos(texto, PalabraChars \cup Marcas, <<>>)

\* re.findall(r'\b\w+\b', texto) of _a4_verificar_completitud
TokensTexto(texto) == Rango(Trozos(texto, PalabraChars, <<>>))

\* patron.replace("-", " ").split()
Componentes(patron) == Trozos(patron, Alfabeto \ {" ", "-"}, <<>>)

\* str.find: offset of the first occurrence, -1 when there is none
Find(patron, texto) ==
    LET hits == {k \in 0..(Len(texto) - Len(patron)) :
                    SubSeq(texto, k + 1, k + Len(patron)) = patron}
    IN IF hits = {} THEN -1 ELSE CHOOSE k \in hits : \A j \in hits : k <= j

\* _fase_analisis_lexico: the classified tokens of a text
TokensClasificados(texto) ==
    LET toks == Tokenizar(texto)
    IN [i \in 1..Len(toks) |-> <<toks[i], Clasificar(toks[i])[1], Clasificar(toks[i])[2]>>]

Oraciones == SeqsHasta(Tokens, MaxLen)

\* the documents whose analysis seals the glossary: a nucleus, a particle, both
\* in either order (the predefined locution when it is configured), a nucleus
\* twice, and words outside the particle lists
Documentos ==
    {<<"nafs">>, <<"bi">>, <<"nafs", "bi">>, <<"bi", "nafs">>, <<"nafs", "nafs">>,
     <<"zzz">>, <<"zzz", "law">>, <<"law", "nafs">>}

\* ------------------------------------------------------------------------
\* State
\* ------------------------------------------------------------------------
VARIABLES
    glosario,            \* the Glosario: [entradas, locuciones, locucion_counter, sellado, historial]
    config_locs,         \* config.locuciones_predefinidas
    mtx_s,               \* Core.mtx_s: the source cells with their slots
    mtx_t,               \* Core.mtx_t: [size, celdas, inyecciones]
    fase_actual,         \* Core._fase_actual
    errores,             \* Core._errores
    resultado,           \* what the last call returned (or raised)
    pc,                  \* position inside the running call
    idx,                 \* next slot of the running loop (F2 or F4-F7)
    llamada,             \* the running (or last) call: its arguments and the state it started from
    obs,                 \* observation of the run: what the resolvers did (not program state)
    gestor,              \* the GestorConsultas: [consultas, decisiones, contador, auto_decidir]
    casos,               \* the ProcesadorCasosDificiles: [consultas_pendientes]
    comandos             \* the ProcesadorComandos: [confirmacion_pendiente]

vars == <<glosario, config_locs, mtx_s, mtx_t, fase_actual, errores, resultado, pc, idx,
          llamada, obs, gestor, casos, comandos>>

\* ------------------------------------------------------------------------
\* Data model (models.py)
\* ------------------------------------------------------------------------
SinFunciones == [r \in FuncRoles |-> NULL]

\* EntradaGlosario(token_src, categoria, status, ocurrencias)
NuevaEntrada(categoria, tgt, status, ocurrencias) ==
    [categoria |-> categoria, token_tgt |-> tgt, status |-> status,
     margen |-> 0, ocurrencias |-> ocurrencias, etiqueta |-> NULL,
     traducciones_por_funcion |-> SinFunciones]

Digitos == <<"0", "1", "2", "3", "4", "5", "6", "7", "8", "9">>

RECURSIVE Decimal(_)
\* str(n) for n >= 0
Decimal(n) ==
    IF n < 10 THEN Digitos[n + 1] ELSE Decimal(n \div 10) \o Digitos[(n % 10) + 1]

\* f"LOC_{n:04d}"
LocId(n) ==
    "LOC_" \o (IF n < 10 THEN "000" ELSE IF n < 100 THEN "00"
                ELSE IF n < 1000 THEN "0" ELSE "") \o Decimal(n)

\* Locucion(id, src, componentes, posiciones, tgt)
NuevaLocucion(id, src, componentes, posiciones, tgt) ==
    [id |-> id, src |-> src, componentes |-> componentes,
     posiciones |-> posiciones, tgt |-> tgt]

\* Locucion.primera_posicion
PrimeraPosicion(loc) ==
    IF loc.posiciones = {} THEN -1
    ELSE CHOOSE p \in loc.posiciones : \A q \in loc.posiciones : p <= q

\* CeldaMatriz of a target matrix
CeldaT(pos, token_src, token_tgt, tipo) ==
    [pos |-> pos, token_src |-> token_src, token_tgt |-> token_tgt, tipo |-> tipo]

\* MatrizTarget.__init__
NuevaMatrizTarget(size) ==
    [size |-> size,
     celdas |-> [i \in 1..size |-> CeldaT(i - 1, "", NULL, "normal")],
     inyecciones |-> <<>>]

\* MatrizTarget.asignar
MtxAsignar(m, pos, token_tgt, tipo) ==
    IF 0 <= pos /\ pos < m.size
    THEN [m EXCEPT !.celdas[pos + 1].token_tgt = token_tgt,
                   !.celdas[pos + 1].tipo = tipo]
    ELSE m

\* a marcar_absorbido that also appends a cell
MarcarAbsorbidoCrece(m, pos) ==
    [m EXCEPT !.celdas = Append(@, CeldaT(Len(@), "", "[ABSORBIDO]", "absorbido"))]

\* MatrizTarget.marcar_absorbido
MarcarAbsorbido(m, pos) ==
    IF 0 <= pos /\ pos < m.size
    THEN [m EXCEPT !.celdas[pos + 1].tipo = "absorbido",
                   !.celdas[pos + 1].token_tgt = "[ABSORBIDO]"]
    ELSE m

\* MatrizTarget.marcar_nulo
MarcarNulo(m, pos) ==
    IF 0 <= pos /\ pos < m.size
    THEN [m EXCEPT !.celdas[pos + 1].tipo = "nulo"]
    ELSE m

\* MatrizTarget.insertar_inyeccion
InsertarInyeccion(m, token, pos_referencia) ==
    [m EXCEPT !.inyecciones = Append(@, CeldaT(pos_referencia, "", token, "inyeccion"))]

\* MatrizTarget.obtener_token
ObtenerToken(m, pos) ==
    IF 0 <= pos /\ pos < m.size THEN m.celdas[pos + 1].token_tgt ELSE NULL

\* MatrizTarget.verificar_isomorfismo against the source cells
VerificarIsomorfismo(m, celdas_s) ==
    /\ m.size = Len(celdas_s)
    /\ \A i \in 1..m.size :
          /\ i \in DOMAIN m.celdas
          /\ m.celdas[i].pos = celdas_s[i].pos

\* ------------------------------------------------------------------------
\* Glosario (glossary.py).  Operators take the glossary g and return the
\* glossary after the call; a raising call returns the exception's name.
\* ------------------------------------------------------------------------
\* Glosario.__init__
GlosarioVacio ==
    [entradas |-> <<>>, locuciones |-> <<>>, locucion_counter |-> 0,
     sellado |-> FALSE, historial |-> <<>>, consultas_pendientes |-> <<>>]

Registrado(g, token) == token \in DOMAIN g.entradas

\* _registrar_historial
RegistrarHistorial(g, accion, token) ==
    [g EXCEPT !.historial = Append(@, [accion |-> accion, token |-> token])]

\* writes entry e under key token (dict item assignment)
PonerEntrada(g, token, e) ==
    [g EXCEPT !.entradas =
        [t \in DOMAIN g.entradas \cup {token} |-> IF t = token THEN e ELSE g.entradas[t]]]

\* self._locuciones[loc.id] = loc: a dict item assignment, which replaces the
\* locution stored under the same id
PonerLocucion(g, loc) ==
    LET mismos == {k \in DOMAIN g.locuciones : g.locuciones[k].id = loc.id}
    IN IF mismos = {} THEN [g EXCEPT !.locuciones = Append(@, loc)]
       ELSE [g EXCEPT !.locuciones = [k \in DOMAIN @ |-> IF k \in mismos THEN loc ELSE @[k]]]

\* _crear_locucion_desde_patron
CrearLocucionDesdePatron(g, patron, texto) ==
    LET pos == Find(patron, texto)
        comps == Componentes(patron)
    IN IF pos = -1 THEN g
       ELSE PonerLocucion([g EXCEPT !.locucion_counter = @ + 1],
                          NuevaLocucion(LocId(g.locucion_counter + 1), Unir(patron), comps,
                                        pos..(pos + Len(comps) - 1), NULL))

\* Locucion.generar_traduccion: the dictionary's entry for each component,
\* the component itself where the dictionary has none, joined by hyphens
GenerarTraduccion(componentes, traducciones_etym) ==
    UnirCon("-", [i \in DOMAIN componentes |->
                     IF componentes[i] \in DOMAIN traducciones_etym
                     THEN traducciones_etym[componentes[i]]
                     ELSE componentes[i]])

\* confirmar_locucion(src, es_locucion, traduccion_etym); the dictionary is
\* a function, empty for None and for {}
ConfirmarLocucion(g, src, es_locucion, traduccion_etym) ==
    IF ~es_locucion THEN g
    ELSE LET comps == Componentes(src)
         IN PonerLocucion([g EXCEPT !.locucion_counter = @ + 1],
                          NuevaLocucion(LocId(g.locucion_counter + 1), Unir(src), comps, {},
                                        IF DOMAIN traduccion_etym # {}
                                        THEN GenerarTraduccion(comps, traduccion_etym)
                                        ELSE NULL))

\* the prefixes and the pronominal suffixes of the heuristic pattern; the
\* members written with diacritics lie outside the model's alphabet
PrefijosHeuristicos == {<<"b", "i">>, <<"l", "i">>, <<"f", "i">>, <<"m", "i", "n">>}
SufijosHeuristicos ==
    {<<"h", "u">>, <<"h", "u", "m">>, <<"h", "u", "n", "n", "a">>, <<"k", "a">>,
     <<"k", "i">>, <<"k", "u", "m">>, <<"k", "u", "n", "n", "a">>}

\* offset of the first character at or after k that is not of class \w
FinDeRun(texto, k) ==
    LET fuera == {j \in k..(Len(texto) - 1) : texto[j + 1] \notin PalabraChars}
    IN IF fuera = {} THEN Len(texto) ELSE CHOOSE j \in fuera : \A i \in fuera : j <= i

\* re.match of \b(prefix)-?(\w+)-?(suffix)\b at offset k: the offset after
\* the match, -1 when there is none
FinHeuristico(texto, k) ==
    LET pres == {p \in PrefijosHeuristicos :
                    k + Len(p) <= Len(texto) /\ SubSeq(texto, k + 1, k + Len(p)) = p}
    IN IF (k > 0 /\ texto[k] \in PalabraChars) \/ pres = {} THEN -1
       ELSE LET p == CHOOSE q \in pres : TRUE
                a0 == k + Len(p)
                a == IF a0 < Len(texto) /\ texto[a0 + 1] = "-" THEN a0 + 1 ELSE a0
                e1 == FinDeRun(texto, a)
                e2 == FinDeRun(texto, e1 + 1)
            IN IF e1 = a THEN -1
               ELSE IF /\ e1 < Len(texto)
                       /\ texto[e1 + 1] = "-"
                       /\ SubSeq(texto, e1 + 2, e2) \in SufijosHeuristicos
                    THEN e2
               ELSE IF \E su \in SufijosHeuristicos :
                          /\ Len(su) < e1 - a
                          /\ SubSeq(texto, e1 - Len(su) + 1, e1) = su
                    THEN e1
               ELSE -1

RECURSIVE MatchesHeuristicos(_, _)
\* re.finditer of the heuristic pattern from offset k on: <<start, text>>
MatchesHeuristicos(texto, k) ==
    IF k >= Len(texto) THEN <<>>
    ELSE LET fin == FinHeuristico(texto, k)
         IN IF fin = -1 THEN MatchesHeuristicos(texto, k + 1)
            ELSE <<<<k, SubSeq(texto, k + 1, fin)>>>> \o MatchesHeuristicos(texto, fin)

\* _crear_consulta_locucion
CrearConsultaLocucion(g, posible_loc, posicion) ==
    [numero |-> Len(g.consultas_pendientes) + 1,
     codigo |-> "C3_POSIBLE_LOCUCION",
     contexto |-> posicion,
     token_o_frase |-> Unir(posible_loc),
     opciones |-> <<"A", "B">>,
     recomendacion |-> "A"]

RECURSIVE A1Predefinidas(_, _, _)
\* method 1 of _a1_detectar_locuciones: the predefined list, in order
A1Predefinidas(g, texto, predefinidas) ==
    IF predefinidas = <<>> THEN g
    ELSE Sea(IF Find(Head(predefinidas), texto) # -1
             THEN CrearLocucionDesdePatron(g, Head(predefinidas), texto)
             ELSE g,
             LAMBDA g2 : A1Predefinidas(g2, texto, Tail(predefinidas)))

\* a mutation of method 2 that accepts a match as a locution without asking
A1HeuristicaAcepta(g, matches, detectadas) ==
    IF matches = <<>> THEN g
    ELSE ConfirmarLocucion(g, Head(matches)[2], TRUE, <<>>)

RECURSIVE A1Heuristica(_, _, _)
\* method 2 of _a1_detectar_locuciones: one consultation per match whose
\* text is not the src of a locution detected by method 1 in this call
A1Heuristica(g, matches, detectadas) ==
    IF matches = <<>> THEN g
    ELSE Sea(IF Unir(Head(matches)[2]) \notin detectadas
             THEN [g EXCEPT !.consultas_pendientes =
                       Append(@, CrearConsultaLocucion(g, Head(matches)[2], Head(matches)[1]))]
             ELSE g,
             LAMBDA g2 : A1Heuristica(g2, Tail(matches), detectadas))

\* _a1_detectar_locuciones
A1DetectarLocuciones(g, texto, predefinidas) ==
    Sea(A1Predefinidas(g, texto, predefinidas),
        LAMBDA g1 : A1Heuristica(g1, MatchesHeuristicos(texto, 0),
                        {g1.locuciones[k].src :
                            k \in (Len(g.locuciones) + 1)..Len(g1.locuciones)}))

\* _token_en_locucion: id of the first locution holding the token at the position
TokenEnLocucion(g, token, posicion) ==
    LET hits == {k \in DOMAIN g.locuciones :
                    /\ token \in Rango(g.locuciones[k].componentes)
                    /\ posicion \in g.locuciones[k].posiciones}
    IN IF hits = {} THEN NULL
       ELSE g.locuciones[CHOOSE k \in hits : \A j \in hits : k <= j].id

RECURSIVE A3RegistrarTokens(_, _, _)
\* _a3_registrar_tokens, from index i (0-based) on
A3RegistrarTokens(g, tokens_clasificados, i) ==
    IF i >= Len(tokens_clasificados) THEN g
    ELSE LET token == tokens_clasificados[i + 1][1]
             categoria == tokens_clasificados[i + 1][2]
             locucion_id == TokenEnLocucion(g, token, i)
         IN Sea(IF ~Registrado(g, token)
                THEN PonerEntrada(g, token,
                         NuevaEntrada(categoria, NULL,
                             IF locucion_id # NULL THEN "BLOQUEADO" ELSE "PENDIENTE",
                             <<i>>))
                ELSE [g EXCEPT !.entradas[token].ocurrencias = Append(@, i)],
                LAMBDA g2 : A3RegistrarTokens(g2, tokens_clasificados, i + 1))

\* tokens_registrados of _a4_verificar_completitud
TokensRegistrados(g) ==
    DOMAIN g.entradas \cup
    UNION {Rango(g.locuciones[k].componentes) : k \in DOMAIN g.locuciones}

\* faltantes as the symmetric difference of the two sets
FaltantesSimetrica(g, texto) ==
    (TokensTexto(texto) \ TokensRegistrados(g)) \cup (TokensRegistrados(g) \ TokensTexto(texto))

\* faltantes of _a4_verificar_completitud
Faltantes(g, texto) == TokensTexto(texto) \ TokensRegistrados(g)

\* sobrantes of _a4_verificar_completitud
Sobrantes(g, texto) == TokensRegistrados(g) \ TokensTexto(texto)

\* an _a4_verificar_completitud that seals whatever the text holds
A4VerificarCompletitudSinFallo(g, texto) ==
    [g |-> RegistrarHistorial([g EXCEPT !.sellado = TRUE], "GLOSARIO_SELLADO", NULL),
     error |-> NULL]

\* _a4_verificar_completitud
A4VerificarCompletitud(g, texto) ==
    IF Faltantes(g, texto) # {}
    THEN [g |-> g, error |-> "RegistroIncompletoError"]
    ELSE [g |-> RegistrarHistorial([g EXCEPT !.sellado = TRUE], "GLOSARIO_SELLADO", NULL),
          error |-> NULL]

\* fase_a_procesar
FaseAProcesarOp(g, texto, tokens_clasificados, predefinidas) ==
    Sea(A1DetectarLocuciones(g, texto, predefinidas),
        LAMBDA g1 : Sea(A3RegistrarTokens(g1, tokens_clasificados, 0),
                        LAMBDA g3 : A4VerificarCompletitud(g3, texto)))

\* esta_sellado
EstaSellado(g) == g.sellado

\* fase_b_verificar_bloqueo
FaseBVerificarBloqueo(g, token, posicion) ==
    LET locucion_id == TokenEnLocucion(g, token, posicion)
        con == {k \in DOMAIN g.locuciones : token \in Rango(g.locuciones[k].componentes)}
    IN IF locucion_id # NULL THEN locucion_id
       ELSE IF Registrado(g, token) /\ g.entradas[token].status = "BLOQUEADO" /\ con # {}
       THEN g.locuciones[CHOOSE k \in con : \A j \in con : k <= j].id
       ELSE NULL

\* a fase_b_verificar_sinonimia that never raises
FaseBVerificarSinonimiaLaxa(g, token, tgt_propuesto) == TRUE

\* fase_b_verificar_sinonimia: TRUE when it returns, FALSE when it raises SinonimiaError
FaseBVerificarSinonimia(g, token, tgt_propuesto) ==
    IF ~Registrado(g, token) THEN TRUE
    ELSE LET entrada == g.entradas[token]
         IN IF entrada.categoria # "NUCLEO" THEN TRUE
            ELSE ~(Truthy(entrada.token_tgt) /\ tgt_propuesto # entrada.token_tgt)

\* fase_b_asignar: [g, ret, error]
FaseBAsignar(g, token, tgt, margen, etiqueta, func_role) ==
    IF ~Registrado(g, token) THEN [g |-> g, ret |-> FALSE, error |-> NULL]
    ELSE LET entrada == g.entradas[token]
         IN IF entrada.categoria = "NUCLEO" /\ Truthy(entrada.token_tgt)
            THEN IF FaseBVerificarSinonimia(g, token, tgt)
                 THEN [g |-> g, ret |-> TRUE, error |-> NULL]
                 ELSE [g |-> g, ret |-> FALSE, error |-> "SinonimiaError"]
            ELSE LET e1 == IF entrada.categoria = "PARTICULA" /\ func_role # NULL
                           THEN [entrada EXCEPT !.traducciones_por_funcion[func_role] = tgt]
                           ELSE entrada
                     e2 == [e1 EXCEPT !.token_tgt = tgt, !.status = "ASIGNADO",
                                      !.margen = margen, !.etiqueta = etiqueta]
                 IN [g |-> RegistrarHistorial(PonerEntrada(g, token, e2), "ASIGNACION", token),
                     ret |-> TRUE, error |-> NULL]

\* an obtener_traduccion that ignores the per-function targets
ObtenerTraduccionSinFuncion(g, token, func_role) ==
    IF ~Registrado(g, token) THEN NULL ELSE g.entradas[token].token_tgt

\* obtener_traduccion
ObtenerTraduccion(g, token, func_role) ==
    IF ~Registrado(g, token) THEN NULL
    ELSE IF func_role # NULL /\ g.entradas[token].traducciones_por_funcion[func_role] # NULL
    THEN g.entradas[token].traducciones_por_funcion[func_role]
    ELSE g.entradas[token].token_tgt

\* an actualizar_entrada that respects the synonymy lock of an assigned nucleus
ActualizarEntradaOpConCandado(g, token, nueva_tgt) ==
    IF ~Registrado(g, token) THEN [g |-> g, ret |-> FALSE, afectadas |-> 0]
    ELSE [g |-> RegistrarHistorial(
                   IF FaseBVerificarSinonimia(g, token, nueva_tgt)
                   THEN [g EXCEPT !.entradas[token].token_tgt = nueva_tgt] ELSE g,
                   "ACTUALIZACION_USUARIO", token),
          ret |-> TRUE,
          afectadas |-> Len(g.entradas[token].ocurrencias)]

\* actualizar_entrada: [g, ret, afectadas]
ActualizarEntradaOp(g, token, nueva_tgt) ==
    IF ~Registrado(g, token) THEN [g |-> g, ret |-> FALSE, afectadas |-> 0]
    ELSE [g |-> RegistrarHistorial([g EXCEPT !.entradas[token].token_tgt = nueva_tgt],
                                   "ACTUALIZACION_USUARIO", token),
          ret |-> TRUE,
          afectadas |-> Len(g.entradas[token].ocurrencias)]

\* agregar_entrada: [g, ret]
AgregarEntradaOp(g, token, categoria, tgt) ==
    IF Registrado(g, token) THEN [g |-> g, ret |-> FALSE]
    ELSE [g |-> RegistrarHistorial(
                   PonerEntrada(g, token,
                       NuevaEntrada(categoria, tgt,
                                    IF Truthy(tgt) THEN "ASIGNADO" ELSE "PENDIENTE", <<>>)),
                   "ENTRADA_AGREGADA_USUARIO", token),
          ret |-> TRUE]

\* agregar_locucion: the glossary after the call (the call returns the locution)
AgregarLocucionOp(g, src, componentes, posiciones, tgt) ==
    LET g1 == PonerLocucion([g EXCEPT !.locucion_counter = @ + 1],
                  NuevaLocucion(LocId(g.locucion_counter + 1), src, componentes,
                                posiciones, tgt))
        g2 == [g1 EXCEPT !.entradas =
                  [t \in DOMAIN @ |->
                      IF t \in Rango(componentes)
                      THEN [@[t] EXCEPT !.status = "BLOQUEADO"] ELSE @[t]]]
    IN RegistrarHistorial(g2, "LOCUCION_AGREGADA_USUARIO", LocId(g.locucion_counter + 1))

\* a mutation of eliminar_entrada that writes no history record
EliminarEntradaSinRegistro(g, token) ==
    IF ~Registrado(g, token) THEN [g |-> g, ret |-> FALSE, afectadas |-> 0]
    ELSE [g |-> [g EXCEPT !.entradas = [t \in DOMAIN @ \ {token} |-> @[t]]],
          ret |-> TRUE,
          afectadas |-> Len(g.entradas[token].ocurrencias)]

\* eliminar_entrada: [g, ret, afectadas]
EliminarEntradaOp(g, token) ==
    IF ~Registrado(g, token) THEN [g |-> g, ret |-> FALSE, afectadas |-> 0]
    ELSE [g |-> RegistrarHistorial(
                   [g EXCEPT !.entradas = [t \in DOMAIN @ \ {token} |-> @[t]]],
                   "ENTRADA_ELIMINADA_USUARIO", token),
          ret |-> TRUE,
          afectadas |-> Len(g.entradas[token].ocurrencias)]

\* json.dumps of an Optional[str]: null for None, a JSON string otherwise
JsonDe(v) ==
    IF v = NULL THEN [tipo |-> "null", valor |-> ""] ELSE [tipo |-> "string", valor |-> v]

\* json.loads of such a value
DeJson(j) == IF j.tipo = "null" THEN NULL ELSE j.valor

\* exportar_json: the JSON document (its "exportado" timestamp, which
\* importar_json never reads, is left out)
ExportarJson(g) ==
    [entradas |->
        [t \in DOMAIN g.entradas |->
            [categoria |-> g.entradas[t].categoria,
             token_tgt |-> JsonDe(g.entradas[t].token_tgt),
             status |-> g.entradas[t].status,
             margen |-> g.entradas[t].margen,
             ocurrencias |-> g.entradas[t].ocurrencias,
             etiqueta |-> JsonDe(g.entradas[t].etiqueta)]],
     locuciones |->
        [k \in DOMAIN g.locuciones |->
            [id |-> g.locuciones[k].id,
             src |-> g.locuciones[k].src,
             tgt |-> JsonDe(g.locuciones[k].tgt),
             componentes |-> g.locuciones[k].componentes,
             posiciones |-> g.locuciones[k].posiciones]],
     sellado |-> g.sellado]

\* importar_json: a new Glosario filled from the JSON document
ImportarJson(data) ==
    [GlosarioVacio EXCEPT
        !.entradas =
            [t \in DOMAIN data.entradas |->
                [NuevaEntrada(data.entradas[t].categoria,
                              DeJson(data.entradas[t].token_tgt),
                              data.entradas[t].status,
                              data.entradas[t].ocurrencias)
                 EXCEPT !.margen = data.entradas[t].margen,
                        !.etiqueta = DeJson(data.entradas[t].etiqueta)]],
        !.locuciones =
            [k \in DOMAIN data.locuciones |->
                NuevaLocucion(data.locuciones[k].id, data.locuciones[k].src,
                              data.locuciones[k].componentes,
                              data.locuciones[k].posiciones,
                              DeJson(data.locuciones[k].tgt))],
        !.sellado = data.sellado]

\* ------------------------------------------------------------------------
\* Consultations (consultas.py).  A ConsultaExtendida is [consulta, estado,
\* respuesta]; a Decision is [consulta_codigo, contexto, opciones, decision,
\* origen].  The timestamps, which nothing reads, are left out.
\* ------------------------------------------------------------------------
\* GestorConsultas()
GestorNuevo == [consultas |-> <<>>, decisiones |-> <<>>, contador |-> 0, auto_decidir |-> TRUE]

\* chr(65 + i)
Letra(i) == CASE i = 0 -> "A" [] i = 1 -> "B" [] i = 2 -> "C" [] OTHER -> "D"

\* crear_consulta; opciones is a list of <<texto, justificacion>>
CrearConsulta(gs, codigo, contexto, token_o_frase, opciones, recomendacion) ==
    [gs EXCEPT
        !.contador = @ + 1,
        !.consultas = Append(@,
            [consulta |-> [numero |-> gs.contador + 1, codigo |-> codigo,
                           contexto |-> contexto, token_o_frase |-> token_o_frase,
                           opciones |-> [i \in DOMAIN opciones |->
                                            [letra |-> Letra(i - 1),
                                             texto |-> opciones[i][1],
                                             justificacion |-> opciones[i][2]]],
                           recomendacion |-> recomendacion],
             estado |-> "PENDIENTE", respuesta |-> NULL])]

\* obtener_pendientes: the indices of the pending consultations, ascending
ObtenerPendientes(gs) ==
    {k \in DOMAIN gs.consultas : gs.consultas[k].estado = "PENDIENTE"}

\* _registrar_decision on the consultation at index k
RegistrarDecision(gs, k, opcion, origen) ==
    [gs EXCEPT !.decisiones = Append(@,
        [consulta_codigo |-> gs.consultas[k].consulta.codigo,
         contexto |-> gs.consultas[k].consulta.contexto,
         opciones |-> [i \in DOMAIN gs.consultas[k].consulta.opciones |->
                          gs.consultas[k].consulta.opciones[i].texto],
         decision |-> opcion, origen |-> origen])]

\* ce.marcar_respondida / ce.marcar_inferida on the consultation at index k
Marcar(gs, k, respuesta, estado) ==
    [gs EXCEPT !.consultas[k].respuesta = respuesta, !.consultas[k].estado = estado]

RECURSIVE ProcesarRespuestaDesde(_, _, _, _)
\* the loop of procesar_respuesta over the consultations that were pending
\* when it started, from index k on: [gs, ret]
ProcesarRespuestaDesde(gs, respuesta, k, ret) ==
    IF k > Len(gs.consultas) THEN [gs |-> gs, ret |-> ret]
    ELSE LET num == gs.consultas[k].consulta.numero
             opcion == IF num \in DOMAIN respuesta.decisiones
                       THEN respuesta.decisiones[num]
                       ELSE gs.consultas[k].consulta.recomendacion
         IN IF /\ gs.consultas[k].estado = "PENDIENTE"
               /\ (num \in DOMAIN respuesta.decisiones \/ respuesta.usar_recomendaciones)
            THEN ProcesarRespuestaDesde(
                     RegistrarDecision(Marcar(gs, k, opcion, "RESPONDIDA"), k, opcion,
                                       "USUARIO"),
                     respuesta, k + 1, Append(ret, <<num, opcion>>))
            ELSE ProcesarRespuestaDesde(gs, respuesta, k + 1, ret)

\* procesar_respuesta: [gs, ret], ret the pairs <<numero, opcion>> in order
ProcesarRespuesta(gs, respuesta) == ProcesarRespuestaDesde(gs, respuesta, 1, <<>>)

RECURSIVE AplicarRecomendacionesDesde(_, _, _)
AplicarRecomendacionesDesde(gs, k, ret) ==
    IF k > Len(gs.consultas) THEN [gs |-> gs, ret |-> ret]
    ELSE IF gs.consultas[k].estado = "PENDIENTE"
    THEN LET opcion == gs.consultas[k].consulta.recomendacion
         IN AplicarRecomendacionesDesde(
                RegistrarDecision(Marcar(gs, k, opcion, "INFERIDA"), k, opcion,
                                  "AUTOMATICA"),
                k + 1, Append(ret, <<gs.consultas[k].consulta.numero, opcion>>))
    ELSE AplicarRecomendacionesDesde(gs, k + 1, ret)

\* a mutation of aplicar_recomendaciones_pendientes that obeys auto_decidir
AplicarRecomendacionesSiAuto(gs) ==
    IF gs.auto_decidir THEN AplicarRecomendacionesDesde(gs, 1, <<>>)
    ELSE [gs |-> gs, ret |-> <<>>]

\* aplicar_recomendaciones_pendientes: [gs, ret]
AplicarRecomendacionesPendientes(gs) == AplicarRecomendacionesDesde(gs, 1, <<>>)

\* limpiar_consultas
LimpiarConsultas(gs) == [gs EXCEPT !.consultas = <<>>]

\* limpiar_todo
LimpiarTodo(gs) == [gs EXCEPT !.consultas = <<>>, !.decisiones = <<>>, !.contador = 0]

\* set_auto_decidir
SetAutoDecidir(gs, valor) == [gs EXCEPT !.auto_decidir = valor]

\* ------------------------------------------------------------------------
\* Syntactic repair (reparacion.py).  Positions are Python integers: the
\* guarded read "celdas[pos] if pos < len(celdas) else None" yields None for
\* pos >= len, the cell len+pos for -len <= pos < 0, and raises IndexError
\* for pos < -len.
\* ------------------------------------------------------------------------
WHITELIST_INYECCION == {"hecho", "cosa", "algo", "que"}

\* (the accented pronouns of the source list are written without accent)
BLACKLIST_INYECCION == {"yo", "tu", "el", "ella", "nosotros", "vosotros", "ellos",
                        "ellas", "me", "te", "se", "nos", "os"}

\* celdas[pos]: the 1-based index of the cell read, 0 when the index is out of range
Indice(m, pos) ==
    IF 0 <= pos /\ pos < Len(m.celdas) THEN pos + 1
    ELSE IF pos < 0 /\ -Len(m.celdas) <= pos THEN Len(m.celdas) + pos + 1
    ELSE 0

\* the guarded read raises
LecturaFalla(m, pos) == pos < -Len(m.celdas)

\* the guarded read yields None
SinCelda(m, pos) == pos >= Len(m.celdas)

\* Operadores.op_insert: [m, ret]
OpInsert(m, token, pos_referencia) ==
    IF token \notin WHITELIST_INYECCION \/ token \in BLACKLIST_INYECCION
    THEN [m |-> m, ret |-> FALSE]
    ELSE [m |-> InsertarInyeccion(m, token, pos_referencia), ret |-> TRUE]

\* Operadores.op_insert_punct with "," (pos read by the guarded read)
OpInsertPunct(m, puntuacion, pos) ==
    IF puntuacion \notin {",", ";"} THEN [m |-> m, ret |-> FALSE]
    ELSE IF ~SinCelda(m, pos) /\ Truthy(m.celdas[Indice(m, pos)].token_tgt)
    THEN [m |-> [m EXCEPT !.celdas[Indice(m, pos)].token_tgt = @ \o puntuacion],
          ret |-> TRUE]
    ELSE [m |-> m, ret |-> TRUE]

\* Operadores.op_null: [m, ret]
OpNull(m, pos) ==
    IF pos >= Len(m.celdas) THEN [m |-> m, ret |-> FALSE]
    ELSE [m |-> MarcarNulo(m, pos), ret |-> TRUE]

\* VerificadorCohesion.verificar
VerificarCohesion(m, pos) ==
    IF pos >= Len(m.celdas) THEN FALSE
    ELSE Truthy(m.celdas[Indice(m, pos)].token_tgt)

\* VerificadorCohesion.identificar_problema
IdentificarProblema(m, pos) ==
    IF pos >= Len(m.celdas) THEN "POSICION_INVALIDA"
    ELSE IF ~Truthy(m.celdas[Indice(m, pos)].token_tgt) THEN "TOKEN_FALTANTE"
    ELSE NULL

\* ReparadorSintactico._f1_bypass (called only when the read does not raise)
F1Bypass(m, pos, token_fuente) ==
    IF SinCelda(m, pos) THEN FALSE
    ELSE LET celda == m.celdas[Indice(m, pos)]
         IN \/ celda.tipo = "absorbido"
            \/ token_fuente /\ Truthy(celda.token_tgt)

\* ReparadorSintactico._requiere_puntuacion
RequierePuntuacion(m, pos) ==
    /\ pos + 1 < Len(m.celdas)
    /\ Indice(m, pos + 1) # 0
    /\ m.celdas[Indice(m, pos + 1)].token_tgt \in {"que", "pero", "sino", "aunque"}

\* ReparadorSintactico._f2_soporte: [m, ret].  identificar_problema never
\* answers "FALTA_SOPORTE", so the injection loop is not entered; the
\* punctuation branch needs a truthy token, which a reported problem excludes.
F2Soporte(m, pos) ==
    LET problema == IdentificarProblema(m, pos)
    IN IF problema = NULL THEN [m |-> m, ret |-> TRUE]
       ELSE IF /\ ~SinCelda(m, pos)
               /\ Truthy(m.celdas[Indice(m, pos)].token_tgt)
               /\ RequierePuntuacion(m, pos)
            THEN LET r == OpInsertPunct(m, ",", pos)
                 IN [m |-> r.m, ret |-> r.ret /\ VerificarCohesion(r.m, pos)]
            ELSE [m |-> m, ret |-> FALSE]

\* ReparadorSintactico._f3_morfologia: _detectar_ajuste_necesario answers None
F3Morfologia(m, pos) == FALSE

\* ReparadorSintactico._f4_nulidad_local: [m, ret]
F4NulidadLocal(m, pos) ==
    IF SinCelda(m, pos) THEN [m |-> m, ret |-> FALSE] ELSE OpNull(m, pos)

\* ReparadorSintactico._f5_nulidad_regimen: [m, ret]
F5NulidadRegimen(m, pos) ==
    IF SinCelda(m, pos) THEN [m |-> m, ret |-> FALSE] ELSE OpNull(m, pos)

\* ReparadorSintactico._f6_limpieza
F6Limpieza(m) ==
    LET tokens_fuente == {m.celdas[i].token_src : i \in DOMAIN m.celdas} \ {"", NULL}
    IN [m EXCEPT !.inyecciones =
           SelectSeq(m.inyecciones, LAMBDA iny : iny.token_tgt \notin tokens_fuente)]

\* the ResultadoReparador of a call, with what the call went through:
\* fases lists the phases attempted, in order, each with what it returned
ResultadoReparar(m, exito, mensaje, error, f5, limpieza, fases) ==
    [m |-> m, exito |-> exito, mensaje |-> mensaje, error |-> error,
     f5 |-> f5, limpieza |-> limpieza, fases |-> fases]

\* a reparar that tries the support phase before the bypass
RepararSoportePrimero(m, pos, token_fuente) ==
    IF LecturaFalla(m, pos)
    THEN ResultadoReparar(m, FALSE, NULL, "IndexError", "no", FALSE, <<>>)
    ELSE LET r2 == F2Soporte(m, pos)
         IN IF r2.ret
            THEN ResultadoReparar(r2.m, TRUE, "REPAIR-OK (SOPORTE)", NULL, "no", FALSE,
                                  <<<<"SOPORTE", TRUE>>>>)
            ELSE IF F1Bypass(r2.m, pos, token_fuente)
            THEN ResultadoReparar(r2.m, TRUE, "REPAIR-OK (BYPASS)", NULL, "no", FALSE,
                                  <<<<"SOPORTE", FALSE>>, <<"BYPASS", TRUE>>>>)
            ELSE ResultadoReparar(F6Limpieza(r2.m), TRUE, "REPAIR-OK", NULL, "no", TRUE,
                                  <<<<"SOPORTE", FALSE>>, <<"BYPASS", FALSE>>>>)

\* ReparadorSintactico.reparar.  f5 is "no" when the last phase was not
\* reached, else "ok" or "falla" as it returned.
Reparar(m, pos, token_fuente) ==
    IF LecturaFalla(m, pos)
    THEN ResultadoReparar(m, FALSE, NULL, "IndexError", "no", FALSE, <<<<"BYPASS", NULL>>>>)
    ELSE IF F1Bypass(m, pos, token_fuente)
    THEN ResultadoReparar(m, TRUE, "REPAIR-OK (BYPASS)", NULL, "no", FALSE,
                          <<<<"BYPASS", TRUE>>>>)
    ELSE LET r2 == F2Soporte(m, pos)
             f2 == <<<<"BYPASS", FALSE>>, <<"SOPORTE", r2.ret>>>>
         IN IF r2.ret
            THEN ResultadoReparar(r2.m, TRUE, "REPAIR-OK (SOPORTE)", NULL, "no", FALSE, f2)
            ELSE IF F3Morfologia(r2.m, pos)
            THEN ResultadoReparar(r2.m, TRUE, "REPAIR-OK (MORFOLOGIA)", NULL, "no", FALSE,
                                  Append(f2, <<"MORFOLOGIA", TRUE>>))
            ELSE LET r4 == F4NulidadLocal(r2.m, pos)
                     f4 == f2 \o <<<<"MORFOLOGIA", FALSE>>, <<"NULIDAD_LOCAL", r4.ret>>>>
                 IN IF r4.ret
                    THEN ResultadoReparar(r4.m, TRUE, "REPAIR-OK (NULIDAD_LOCAL)",
                                          NULL, "no", FALSE, f4)
                    ELSE LET r5 == F5NulidadRegimen(r4.m, pos)
                             f5 == Append(f4, <<"NULIDAD_REGIMEN", r5.ret>>)
                         IN IF r5.ret
                            THEN ResultadoReparar(r5.m, TRUE, "REPAIR-OK (NULIDAD_REGIMEN (forzado))",
                                                  NULL, "ok", FALSE, f5)
                            ELSE ResultadoReparar(F6Limpieza(r5.m), TRUE, "REPAIR-OK",
                                                  NULL, "falla", TRUE, f5)

\* ------------------------------------------------------------------------
\* Difficult cases (casos_dificiles.py) and the etymological base (nucleos.py)
\* ------------------------------------------------------------------------
JERARQUIA_ETIMOLOGICA == <<"LENGUA_FUENTE", "LATINA", "GRIEGA", "ARABE", "TECNICA">>

\* CandidatoEtimologico.calcular_prioridad
CalcularPrioridad(origen) ==
    LET hits == {i \in DOMAIN JERARQUIA_ETIMOLOGICA : JERARQUIA_ETIMOLOGICA[i] = origen}
    IN IF hits = {} THEN 0
       ELSE Len(JERARQUIA_ETIMOLOGICA) - ((CHOOSE i \in hits : TRUE) - 1)

Candidato(termino, origen, raiz, derivacion_existe, es_metafora_viable) ==
    [termino |-> termino, origen |-> origen, raiz |-> raiz,
     derivacion_existe |-> derivacion_existe,
     es_metafora_viable |-> es_metafora_viable,
     prioridad |-> CalcularPrioridad(origen)]

\* BaseEtimologica._raices with _metaforas_viables applied (the entries
\* whose key the model's alphabet can spell)
Raices(token) ==
    CASE token = "nafs" -> <<Candidato("alma", "LATINA", "anim-", TRUE, FALSE),
                             Candidato("espiritu", "LATINA", "spirit-", TRUE, FALSE),
                             Candidato("psique", "GRIEGA", "psych-", TRUE, FALSE)>>
      [] token = "kalima" -> <<Candidato("palabra", "LATINA", "parabola-", TRUE, FALSE),
                               Candidato("verbo", "LATINA", "verb-", TRUE, FALSE)>>
      [] OTHER -> <<>>

RECURSIVE OrdenarPorPrioridad(_)
\* list.sort(key=prioridad, reverse=True): stable, highest first
OrdenarPorPrioridad(cands) ==
    IF cands = <<>> THEN <<>>
    ELSE LET resto == OrdenarPorPrioridad(Tail(cands))
             c == Head(cands)
             antes == SelectSeq(resto, LAMBDA x : x.prioridad > c.prioridad)
             despues == SelectSeq(resto, LAMBDA x : x.prioridad <= c.prioridad)
         IN antes \o <<c>> \o despues

\* BaseEtimologica.buscar_raices
BuscarRaices(token) == OrdenarPorPrioridad(Raices(token))

Vocales == {"a", "e", "i", "o", "u"}

\* Transliterador.transliterar: the vocalisation mark maps to its short
\* vowel, ASCII characters map to themselves
Transliterar(chars) == [i \in DOMAIN chars |-> IF chars[i] \in Marcas THEN "a" ELSE chars[i]]

\* GeneradorSufijos.obtener_sufijo
ObtenerSufijo(categoria, subtipo) ==
    CASE categoria = "SUSTANTIVO" -> <<"-", "i", "d", "a", "d">>
      [] categoria = "ADJETIVO" ->
            IF subtipo = "participial" THEN <<"-", "a", "d", "o">> ELSE <<"-", "a", "l">>
      [] categoria = "VERBO" -> <<"-", "a", "r">>
      [] categoria = "ADVERBIO" -> <<"-", "m", "e", "n", "t", "e">>
      [] OTHER -> <<"-", "a", "d", "o">>

RECURSIVE RStrip(_)
\* str.rstrip("-")
RStrip(chars) ==
    IF chars # <<>> /\ chars[Len(chars)] = "-" THEN RStrip(SubSeq(chars, 1, Len(chars) - 1))
    ELSE chars

RECURSIVE LStrip(_)
\* str.lstrip("-")
LStrip(chars) == IF chars # <<>> /\ Head(chars) = "-" THEN LStrip(Tail(chars)) ELSE chars

\* GeneradorSufijos.aplicar_sufijo
AplicarSufijo(raiz, sufijo) ==
    LET raiz_limpia == RStrip(raiz)
        corta == /\ raiz_limpia # <<>> /\ raiz_limpia[Len(raiz_limpia)] \in Vocales
                 /\ sufijo # <<>> /\ Head(sufijo) \in Vocales
    IN (IF corta THEN SubSeq(raiz_limpia, 1, Len(raiz_limpia) - 1) ELSE raiz_limpia)
       \o LStrip(sufijo)

\* the neologism of _estrategia_no_root, as characters, for a token spelled chars
NeologismoRadical(chars, cat_src) ==
    AplicarSufijo(Transliterar(chars), ObtenerSufijo(cat_src, NULL))

\* _estrategia_no_root: [n_base, reason, requiere_consulta]
EstrategiaNoRoot(slot) ==
    [n_base |-> Unir(NeologismoRadical(Letras(slot.token_src), slot.cat_src)),
     reason |-> "NO_ROOT", requiere_consulta |-> FALSE]

\* ProcesadorCasosDificiles.__init__: no consultation is pending
CasosNuevo == [consultas_pendientes |-> <<>>]

\* no confirmation is pending (self._confirmacion_pendiente = None)
SinConfirmacion == [nombre |-> NULL, token |-> NULL, nueva |-> NULL]

\* ProcesadorComandos()
ComandosNuevo == [confirmacion_pendiente |-> SinConfirmacion]

\* _palabra_existe
PalabraExiste(palabra) ==
    palabra \in {"intelectual", "intelectualidad", "inteligente",
                 "racional", "racionalidad", "espiritual"}

\* _estrategia_gap_derivation; candidatos is <<>> when the caller passes none
EstrategiaGapDerivation(slot, candidatos) ==
    IF candidatos = <<>> \/ ~Truthy(candidatos[1].raiz)
    THEN EstrategiaNoRoot(slot)
    ELSE LET n_base == Unir(AplicarSufijo(Letras(candidatos[1].raiz),
                                          ObtenerSufijo(slot.cat_src, "participial")))
         IN IF PalabraExiste(n_base) THEN EstrategiaNoRoot(slot)
            ELSE [n_base |-> n_base, reason |-> "GAP_DERIVATION",
                  requiere_consulta |-> FALSE]

\* the score _evaluar_candidatos gives a candidate
Puntaje(c) ==
    2 * c.prioridad + (IF c.es_metafora_viable THEN 5 ELSE 0)
                    + (IF c.derivacion_existe THEN 3 ELSE 0)

\* _evaluar_candidatos: index of the winner (the first of the highest
\* score), 0 when no score exceeds 3
EvaluarCandidatos(candidatos) ==
    LET mejores == {i \in DOMAIN candidatos :
                       /\ Puntaje(candidatos[i]) > 0
                       /\ \A j \in DOMAIN candidatos :
                             Puntaje(candidatos[j]) <= Puntaje(candidatos[i])}
        mejor == IF mejores = {} THEN 1
                 ELSE CHOOSE i \in mejores : \A j \in mejores : i <= j
    IN IF candidatos = <<>> THEN 0
       ELSE IF Puntaje(candidatos[mejor]) > 3 /\ mejores # {} THEN mejor ELSE 0

\* _estrategia_collision
EstrategiaCollision(g, slot, candidatos) ==
    IF candidatos = <<>> THEN EstrategiaNoRoot(slot)
    ELSE LET metaforas == {i \in DOMAIN candidatos : candidatos[i].es_metafora_viable}
             mejor == EvaluarCandidatos(candidatos)
         IN IF metaforas # {}
            THEN [n_base |-> candidatos[CHOOSE i \in metaforas :
                                           \A j \in metaforas : i <= j].termino,
                  reason |-> "COLLISION", requiere_consulta |-> FALSE]
            ELSE IF mejor # 0
            THEN IF /\ Registrado(g, slot.token_src)
                    /\ Truthy(g.entradas[slot.token_src].token_tgt)
                    /\ g.entradas[slot.token_src].token_tgt # candidatos[mejor].termino
                 THEN [n_base |-> Unir(Transliterar(Letras(slot.token_src))),
                       reason |-> "COLLISION", requiere_consulta |-> FALSE]
                 ELSE [n_base |-> candidatos[mejor].termino,
                       reason |-> "COLLISION", requiere_consulta |-> FALSE]
            ELSE [n_base |-> candidatos[1].termino,
                  reason |-> "COLLISION", requiere_consulta |-> TRUE]

\* MARGEN_VALORES.get(reason, 3)
MargenValores(reason) ==
    CASE reason = "IDIOM" -> 6
      [] reason = "COLLISION" -> 5
      [] reason \in {"NO_ROOT", "GAP_DERIVATION"} -> 4
      [] reason = "MAPEO_1_1_ALT" -> 2
      [] reason = "MAPEO_1_1_DIRECTO" -> 1
      [] OTHER -> 3

\* BaseEtimologicaLocuciones.obtener_traduccion_etym: the table entry of
\* the component without its outer hyphens (the model's words are already
\* lower case), else its transliteration
ObtenerTraduccionEtym(componente) ==
    LET comp_limpio == Unir(RStrip(LStrip(Letras(componente))))
    IN CASE comp_limpio = "bi" -> "por"
         [] comp_limpio = "nafs" -> "alma"
         [] OTHER -> Unir(Transliterar(Letras(componente)))

\* the index of the first locution whose componentes hold the token, 0 for none
LocucionDuena(g, token) ==
    LET con == {k \in DOMAIN g.locuciones : token \in Rango(g.locuciones[k].componentes)}
    IN IF con = {} THEN 0 ELSE CHOOSE k \in con : \A j \in con : k <= j

\* an _estrategia_idiom that leaves the locution as it found it
EstrategiaIdiomSinCache(g, slot) ==
    LET k == LocucionDuena(g, slot.token_src)
    IN IF k = 0 THEN [g |-> g, r |-> EstrategiaNoRoot(slot)]
       ELSE IF Truthy(g.locuciones[k].tgt)
       THEN [g |-> g, r |-> [n_base |-> g.locuciones[k].tgt, reason |-> "IDIOM",
                             requiere_consulta |-> FALSE]]
       ELSE [g |-> g,
             r |-> [n_base |-> UnirCon("-", [i \in DOMAIN g.locuciones[k].componentes |->
                                   ObtenerTraduccionEtym(g.locuciones[k].componentes[i])]),
                    reason |-> "IDIOM", requiere_consulta |-> FALSE]]

\* _estrategia_idiom: the result r and the glossary, whose Locucion object
\* the strategy updates
EstrategiaIdiom(g, slot) ==
    LET k == LocucionDuena(g, slot.token_src)
    IN IF k = 0 THEN [g |-> g, r |-> EstrategiaNoRoot(slot)]
       ELSE IF Truthy(g.locuciones[k].tgt)
       THEN [g |-> g, r |-> [n_base |-> g.locuciones[k].tgt, reason |-> "IDIOM",
                             requiere_consulta |-> FALSE]]
       ELSE LET partes_etym == [i \in DOMAIN g.locuciones[k].componentes |->
                                   ObtenerTraduccionEtym(g.locuciones[k].componentes[i])]
                n_base == UnirCon("-", partes_etym)
            IN [g |-> [g EXCEPT !.locuciones[k].tgt = n_base],
                r |-> [n_base |-> n_base, reason |-> "IDIOM",
                       requiere_consulta |-> FALSE]]

\* _registrar_en_glosario as procesar calls it on the strategy's result r
RegistrarEnGlosario(g, slot, r) ==
    IF r.requiere_consulta THEN [g |-> g, n_base |-> r.n_base, error |-> NULL]
    ELSE Sea(FaseBAsignar(g, slot.token_src, r.n_base, MargenValores(r.reason),
                          r.reason, NULL),
             LAMBDA a : [g |-> a.g, n_base |-> r.n_base, error |-> a.error])

\* ProcesadorCasosDificiles.procesar: [g, n_base, error]
ProcesarCasoDificil(g, slot, reason, candidatos) ==
    IF reason = "IDIOM"
    THEN Sea(EstrategiaIdiom(g, slot), LAMBDA e : RegistrarEnGlosario(e.g, slot, e.r))
    ELSE Sea(CASE reason = "NO_ROOT" -> EstrategiaNoRoot(slot)
               [] reason = "GAP_DERIVATION" -> EstrategiaGapDerivation(slot, candidatos)
               [] reason = "COLLISION" -> EstrategiaCollision(g, slot, candidatos),
             LAMBDA r : RegistrarEnGlosario(g, slot, r))

\* ------------------------------------------------------------------------
\* Source matrix (models.py, main.py)
\* ------------------------------------------------------------------------
\* crear_slot_n / crear_slot_p as _crear_matriz_fuente calls them; clase is
\* "N" for a SlotN and "P" for a SlotP
NuevoSlot(token, pos) ==
    [clase |-> IF Clasificar(token)[1] = "NUCLEO" THEN "N" ELSE "P",
     token_src |-> token, cat_src |-> Clasificar(token)[2], func_role |-> NULL,
     pos_index |-> pos, status |-> "PENDIENTE", token_tgt |-> NULL,
     locucion_id |-> NULL]

\* slot.bloquear(locucion_id)
Bloquear(slot, locucion_id) ==
    [slot EXCEPT !.status = "BLOQUEADO", !.locucion_id = locucion_id]

RECURSIVE AgregarLocuciones(_, _)
\* MatrizFuente.agregar_locucion for each locution, in order
AgregarLocuciones(celdas, locs) ==
    IF locs = <<>> THEN celdas
    ELSE AgregarLocuciones(
             [i \in DOMAIN celdas |->
                 IF (i - 1) \in Head(locs).posiciones
                 THEN [celdas[i] EXCEPT !.slot = Bloquear(@, Head(locs).id)]
                 ELSE celdas[i]],
             Tail(locs))

\* SistemaTraduccion._crear_matriz_fuente: the cells with their slots, and
\* the ids of the glossary's locutions (the Locucion objects are shared)
CrearMatrizFuente(g, oracion) ==
    LET tokens == Tokenizar(oracion)
        celdas == [i \in 1..Len(tokens) |->
                      [pos |-> i - 1, token_src |-> tokens[i],
                       slot |-> NuevoSlot(tokens[i], i - 1)]]
    IN [celdas |-> AgregarLocuciones(celdas, g.locuciones),
        locuciones |-> [k \in DOMAIN g.locuciones |-> g.locuciones[k].id]]

\* the Locucion with the given id
LocucionDe(g, id) ==
    g.locuciones[CHOOSE k \in DOMAIN g.locuciones : g.locuciones[k].id = id]

\* MatrizFuente.obtener_locucion_en_pos: index into ms.locuciones, 0 for None
ObtenerLocucionEnPos(g, ms, pos) ==
    LET hits == {k \in DOMAIN ms.locuciones :
                    pos \in LocucionDe(g, ms.locuciones[k]).posiciones}
    IN IF hits = {} THEN 0 ELSE CHOOSE k \in hits : \A j \in hits : k <= j

\* positions (1-based) of the SlotN / SlotP cells: mtx_s.slots_n, mtx_s.slots_p
SlotsDe(ms, clase) ==
    SelectSeq([i \in DOMAIN ms.celdas |-> i], LAMBDA i : ms.celdas[i].slot.clase = clase)

\* ------------------------------------------------------------------------
\* Nucleus resolver (nucleos.py)
\* ------------------------------------------------------------------------
\* _f1_verificar_bloqueo (P4 and P5): the slot after the check; blocked iff
\* its status is BLOQUEADO
F1VerificarBloqueo(g, slot) ==
    IF slot.status = "BLOQUEADO" THEN slot
    ELSE LET loc_id == FaseBVerificarBloqueo(g, slot.token_src, slot.pos_index)
         IN IF loc_id # NULL THEN Bloquear(slot, loc_id) ELSE slot

\* a _f2_cache_check that never hits
F2CacheCheckSinCache(g, slot) == NULL

\* _f2_cache_check
F2CacheCheck(g, slot) ==
    IF Registrado(g, slot.token_src) /\ g.entradas[slot.token_src].status = "ASIGNADO"
    THEN g.entradas[slot.token_src].token_tgt
    ELSE NULL

\* _manejar_caso_dificil: [g, n_base, reason, error]
ManejarCasoDificil(g, slot, reason, cands) ==
    Sea(ProcesarCasoDificil(g, slot, reason, cands),
        LAMBDA r : [g |-> r.g, n_base |-> r.n_base, reason |-> reason,
                    error |-> r.error])

\* an _f4_seleccion that accepts the top-ranked of several candidates
\* whether or not it is metaphor-viable
F4SeleccionPrimero(g, slot, candidatos) ==
    IF Len(candidatos) = 0 THEN ManejarCasoDificil(g, slot, "NO_ROOT", <<>>)
    ELSE IF Len(candidatos) > 1
    THEN [g |-> g, n_base |-> candidatos[1].termino, reason |-> NULL, error |-> NULL]
    ELSE IF ~candidatos[1].derivacion_existe
    THEN ManejarCasoDificil(g, slot, "GAP_DERIVATION", <<>>)
    ELSE [g |-> g, n_base |-> candidatos[1].termino, reason |-> NULL, error |-> NULL]

\* _f4_seleccion: [g, n_base, reason, error]
F4Seleccion(g, slot, candidatos) ==
    IF Len(candidatos) = 0 THEN ManejarCasoDificil(g, slot, "NO_ROOT", <<>>)
    ELSE IF Len(candidatos) > 1
    THEN IF candidatos[1].es_metafora_viable
         THEN [g |-> g, n_base |-> candidatos[1].termino, reason |-> NULL,
               error |-> NULL]
         ELSE ManejarCasoDificil(g, slot, "COLLISION", candidatos)
    ELSE IF ~candidatos[1].derivacion_existe
    THEN ManejarCasoDificil(g, slot, "GAP_DERIVATION", <<>>)
    ELSE [g |-> g, n_base |-> candidatos[1].termino, reason |-> NULL, error |-> NULL]

\* _calcular_margen of _f7_salida
CalcularMargen(reason) ==
    CASE reason = NULL -> 1
      [] reason = "IDIOM" -> 6
      [] reason = "COLLISION" -> 5
      [] reason \in {"NO_ROOT", "GAP_DERIVATION"} -> 4
      [] OTHER -> 1

\* the ResultadoNucleo of a call, the glossary and slot it leaves, and
\* whether buscar_raices was called and SinonimiaError was raised
SalidaNucleo(g, slot, exito, token_tgt, bloqueado, restart, reason, busco, sinonimia) ==
    [g |-> g, slot |-> slot,
     res |-> [exito |-> exito, token_tgt |-> token_tgt, bloqueado |-> bloqueado,
              restart |-> restart, reason |-> reason],
     busco |-> busco, sinonimia |-> sinonimia]

\* _f6_verificar_paridad and _f7_salida of procesar, for the selection sel
\* of F2..F5 (cache is what _f2_cache_check returned)
F6F7Salida(slot, cache, sel) ==
    IF sel.error # NULL
    THEN \* raised inside P6, before restart is set
         SalidaNucleo(sel.g, slot, FALSE, NULL, FALSE, FALSE, NULL, cache = NULL, TRUE)
    ELSE IF ~FaseBVerificarSinonimia(sel.g, slot.token_src, sel.n_base)
    THEN \* raised by F6
         SalidaNucleo(sel.g, slot, FALSE, NULL, FALSE, sel.reason # NULL, sel.reason,
                      cache = NULL, TRUE)
    ELSE Sea(FaseBAsignar(sel.g, slot.token_src, sel.n_base,
                          CalcularMargen(sel.reason), sel.reason, NULL),
             LAMBDA sal :
                 SalidaNucleo(sal.g,
                              [slot EXCEPT !.token_tgt = sel.n_base,
                                           !.status = "ASIGNADO"],
                              TRUE, sel.n_base, FALSE, sel.reason # NULL, sel.reason,
                              cache = NULL, FALSE))

\* F2..F5 of procesar for a slot whose morphology is the default singular
\* (the only one _crear_matriz_fuente builds): F5 leaves n_base as is
F2F5Seleccion(g, slot, cache) ==
    IF cache = NULL
    THEN Sea(BuscarRaices(slot.token_src), LAMBDA c : F4Seleccion(g, slot, c))
    ELSE [g |-> g, n_base |-> cache, reason |-> NULL, error |-> NULL]

\* procesar after F1
ProcesarDesbloqueado(g, slot) ==
    Sea(F2CacheCheck(g, slot),
        LAMBDA cache : Sea(F2F5Seleccion(g, slot, cache),
                           LAMBDA sel : F6F7Salida(slot, cache, sel)))

\* ProcesadorNucleos.procesar
ProcesarNucleo(g, slot0) ==
    Sea(F1VerificarBloqueo(g, slot0),
        LAMBDA slot :
            IF slot.status = "BLOQUEADO"
            THEN SalidaNucleo(g, slot, TRUE, NULL, TRUE, FALSE, NULL, FALSE, FALSE)
            ELSE ProcesarDesbloqueado(g, slot))

\* ProcesadorNucleos.procesar with a BaseEtimologica whose _raices hold
\* raices for the slot's token
ProcesarNucleoCon(g, slot0, raices) ==
    Sea(F1VerificarBloqueo(g, slot0),
        LAMBDA slot :
            IF slot.status = "BLOQUEADO"
            THEN SalidaNucleo(g, slot, TRUE, NULL, TRUE, FALSE, NULL, FALSE, FALSE)
            ELSE Sea(F2CacheCheck(g, slot),
                     LAMBDA cache :
                         Sea(IF cache = NULL
                             THEN F4Seleccion(g, slot, OrdenarPorPrioridad(raices))
                             ELSE [g |-> g, n_base |-> cache, reason |-> NULL,
                                   error |-> NULL],
                             LAMBDA sel : F6F7Salida(slot, cache, sel))))

\* ------------------------------------------------------------------------
\* Particle resolver (particulas.py)
\* ------------------------------------------------------------------------
\* BaseParticulas._particulas: <<termino, es_etimologico, cierra_regimen>>
Particulas(token, func_role) ==
    CASE token = "bi" /\ func_role = "REGIMEN" ->
            <<<<"por", TRUE, TRUE>>, <<"con", FALSE, TRUE>>, <<"en", FALSE, TRUE>>>>
      [] token = "bi" /\ func_role = "MARCA_CASUAL" ->
            <<<<"por", TRUE, TRUE>>, <<"mediante", FALSE, TRUE>>>>
      [] token = "li" /\ func_role = "REGIMEN" ->
            <<<<"para", TRUE, TRUE>>, <<"a", FALSE, TRUE>>>>
      [] token = "li" /\ func_role = "DETERMINACION" -> <<<<"el", FALSE, TRUE>>>>
      [] OTHER -> <<>>

\* BaseParticulas.obtener_regimen_nucleo
ObtenerRegimenNucleo(nucleo) ==
    CASE nucleo = "hablar" -> {"de", "sobre", "con"}
      [] nucleo = "pensar" -> {"en", "sobre"}
      [] nucleo = "consistir" -> {"en"}
      [] nucleo = "depender" -> {"de"}
      [] nucleo = "pertenecer" -> {"a"}
      [] OTHER -> {}

\* _inferir_funcion
InferirFuncion(token) ==
    IF token \in {"wa", "aw", "fa"} THEN "NEXO_LOGICO"
    ELSE IF token = "al" THEN "DETERMINACION"
    ELSE IF token = "man" THEN "RELATIVO"
    ELSE IF token \in {"huwa", "hiya", "inna"} THEN "COPULA"
    ELSE "REGIMEN"

\* _determinar_requisito over the neighbours found by _f2_recepcion
DeterminarRequisito(ms, slot) ==
    LET pos == slot.pos_index
        \* nucleo_izq or nucleo_der: 1-based index of the neighbour, 0 for None
        nucleo == IF pos > 0 THEN pos
                  ELSE IF pos < Len(ms.celdas) - 1 THEN pos + 2
                  ELSE 0
    IN IF nucleo # 0 /\ Truthy(ms.celdas[nucleo].slot.token_tgt)
       THEN ObtenerRegimenNucleo(ms.celdas[nucleo].slot.token_tgt)
       ELSE {}

\* buscar_etimologicos over the data of one token and role: an etymological
\* candidate has prioridad 10
BuscarEtimologicos(datos) == SelectSeq(datos, LAMBDA d : d[2] /\ d[3])

\* buscar_funcionales: every candidate that closes the regime, a functional
\* one with prioridad 5
BuscarFuncionales(datos) == SelectSeq(datos, LAMBDA d : d[3])

\* the filter of _f4_generar_conjuntos by the requisite
FiltrarRequisito(cands, requisito) ==
    SelectSeq(cands, LAMBDA d : requisito = {} \/ d[1] \in requisito)

\* _f4_generar_conjuntos: SET A and SET B
ConjuntoA(token, func_role, requisito) ==
    FiltrarRequisito(BuscarEtimologicos(Particulas(token, func_role)), requisito)

ConjuntoB(token, func_role, requisito) ==
    FiltrarRequisito(BuscarFuncionales(Particulas(token, func_role)), requisito)

RECURSIVE OrdenarParticulas(_)
\* list.sort() under CandidatoParticula.__lt__: stable, etymological (10) before functional (5)
OrdenarParticulas(cands) ==
    IF cands = <<>> THEN <<>>
    ELSE LET resto == OrdenarParticulas(Tail(cands))
             c == Head(cands)
         IN SelectSeq(resto, LAMBDA x : x[2] /\ ~c[2]) \o <<c>>
            \o SelectSeq(resto, LAMBDA x : ~(x[2] /\ ~c[2]))

RECURSIVE SinDuplicados(_, _)
\* the terms of cands in order, skipping those already seen
SinDuplicados(cands, vistos) ==
    IF cands = <<>> THEN <<>>
    ELSE IF Head(cands)[1] \in vistos THEN SinDuplicados(Tail(cands), vistos)
    ELSE <<Head(cands)[1]>> \o SinDuplicados(Tail(cands), vistos \cup {Head(cands)[1]})

\* a _f5_construir_lista that lists SET B as the base lists it
F5ConstruirListaSinOrden(set_a, set_b) == SinDuplicados(set_b, {})

\* _f5_construir_lista
F5ConstruirLista(set_a, set_b) ==
    LET a == SinDuplicados(OrdenarParticulas(set_a), {})
    IN a \o SinDuplicados(OrdenarParticulas(set_b), Rango(a))

\* ProcesadorParticulas.procesar: [slot, candidatos, bloqueado]
ProcesarParticula(g, ms, slot0) ==
    LET slot == F1VerificarBloqueo(g, slot0)
        func_role == IF slot.func_role # NULL THEN slot.func_role
                     ELSE InferirFuncion(slot.token_src)
        requisito == DeterminarRequisito(ms, slot)
    IN IF slot.status = "BLOQUEADO"
       THEN [slot |-> slot, candidatos |-> <<>>, bloqueado |-> TRUE]
       ELSE [slot |-> slot,
             candidatos |-> F5ConstruirLista(ConjuntoA(slot.token_src, func_role, requisito),
                                             ConjuntoB(slot.token_src, func_role, requisito)),
             bloqueado |-> FALSE]

\* ------------------------------------------------------------------------
\* SpecRep: a target matrix driven through its public operations and
\* through ReparadorSintactico.reparar, at any integer position
\* ------------------------------------------------------------------------
\* most injections kept in a matrix
MaxIny == 1

\* positions a caller passes: inside, beyond the end, negative in range, negative out of range
PosRep == (-(MaxLen + 1))..MaxLen

\* no call has been made, or the last operation returned nothing
SinLlamada == [op |-> NULL]

InitRep ==
    /\ glosario = GlosarioVacio
    /\ gestor = GestorNuevo
    /\ casos = CasosNuevo
    /\ comandos = ComandosNuevo
    /\ config_locs = <<>>
    /\ mtx_s = <<>>
    /\ mtx_t \in {NuevaMatrizTarget(n) : n \in 0..MaxLen}
    /\ fase_actual = NULL
    /\ errores = <<>>
    /\ resultado = NULL
    /\ pc = "libre"
    /\ idx = 0
    /\ llamada = SinLlamada
    /\ obs = NULL

\* what the matrix operations leave alone
restoRep == <<comandos, casos, gestor, glosario, config_locs, mtx_s, fase_actual, errores, pc, idx, obs>>

\* mtx_t.asignar(pos, token_tgt) with the default tipo
MtAsignar ==
    \E pos \in 0..MaxLen, tok \in {"", "por"} :
        /\ mtx_t' = MtxAsignar(mtx_t, pos, tok, "asignado")
        /\ llamada' = SinLlamada
        /\ resultado' = NULL
        /\ UNCHANGED restoRep

\* mtx_t.marcar_absorbido(pos)
MtMarcarAbsorbido ==
    \E pos \in 0..MaxLen :
        /\ mtx_t' = MarcarAbsorbido(mtx_t, pos)
        /\ llamada' = SinLlamada
        /\ resultado' = NULL
        /\ UNCHANGED restoRep

\* mtx_t.marcar_nulo(pos)
MtMarcarNulo ==
    \E pos \in 0..MaxLen :
        /\ mtx_t' = MarcarNulo(mtx_t, pos)
        /\ llamada' = SinLlamada
        /\ resultado' = NULL
        /\ UNCHANGED restoRep

\* mtx_t.insertar_inyeccion("que", pos); nothing in reparar reads the
\* reference position of an injection
MtInsertarInyeccion ==
    \E pos \in {0} :
        /\ Len(mtx_t.inyecciones) < MaxIny
        /\ mtx_t' = InsertarInyeccion(mtx_t, "que", pos)
        /\ llamada' = SinLlamada
        /\ resultado' = NULL
        /\ UNCHANGED restoRep

\* celda_t.token_src = celda_s.token_src for every cell, as
\* _f3_mapeo_matricial copies the tokens of the source sentence "que nafs
\* nafs ..." into the target cells
MtFijarFuente ==
    /\ mtx_t.celdas # <<>>
    /\ \A i \in DOMAIN mtx_t.celdas : mtx_t.celdas[i].token_src = ""
    /\ mtx_t' = [mtx_t EXCEPT !.celdas = [i \in DOMAIN @ |->
                    [@[i] EXCEPT !.token_src = IF i = 1 THEN "que" ELSE "nafs"]]]
    /\ llamada' = SinLlamada
    /\ resultado' = NULL
    /\ UNCHANGED restoRep

\* reparador.reparar(mtx_t, pos, token_fuente)
LlamarReparar ==
    \E pos \in PosRep, token_fuente \in BOOLEAN :
        LET r == Reparar(mtx_t, pos, token_fuente)
        IN /\ mtx_t' = r.m
           /\ llamada' = [op |-> "reparar", pos |-> pos, token_fuente |-> token_fuente,
                          antes |-> mtx_t]
           /\ resultado' = [exito |-> r.exito, mensaje |-> r.mensaje, error |-> r.error,
                            f5 |-> r.f5, limpieza |-> r.limpieza, fases |-> r.fases]
           /\ UNCHANGED restoRep

NextRep ==
    \/ MtAsignar
    \/ MtMarcarAbsorbido
    \/ MtMarcarNulo
    \/ MtInsertarInyeccion
    \/ MtFijarFuente
    \/ LlamarReparar

SpecRep == InitRep /\ [][NextRep]_vars

\* a call of reparar has just returned or raised
ReparoHecho == llamada.op = "reparar"

\* C8: reparar never raises and returns exito = True for every matrix and
\* every position, and its last phase (regimen nullity) succeeds whenever
\* it is reached.
C8_Totalidad ==
    ReparoHecho =>
        /\ resultado.error = NULL
        /\ resultado.exito
        /\ resultado.f5 # "falla"

\* C9: after reparar returns for a position inside the matrix, the cell at
\* that position holds a non-empty target token.
C9_CeldaConToken ==
    (ReparoHecho /\ resultado.error = NULL
       /\ 0 <= llamada.pos /\ llamada.pos < mtx_t.size)
        => Truthy(mtx_t.celdas[llamada.pos + 1].token_tgt)

\* the source tokens the cells of the matrix carry
TokensFuenteDe(m) == {m.celdas[i].token_src : i \in DOMAIN m.celdas} \ {"", NULL}

\* C21: whichever phase succeeded, reparar runs the cleanup phase before it
\* returns, so that on return no injected support token duplicates a source
\* token of the sentence
C21_LimpiezaSiempre ==
    (ReparoHecho /\ resultado.error = NULL) =>
        /\ resultado.limpieza
        /\ \A k \in DOMAIN mtx_t.inyecciones :
              mtx_t.inyecciones[k].token_tgt \notin TokensFuenteDe(mtx_t)

\* reparar returned through the bypass and left an injection that repeats a
\* source token
TrasBypassSinLimpieza ==
    /\ ReparoHecho
    /\ resultado.mensaje = "REPAIR-OK (BYPASS)"
    /\ \E k \in DOMAIN mtx_t.inyecciones :
          mtx_t.inyecciones[k].token_tgt \in TokensFuenteDe(mtx_t)

\* the phases of the cascade, in the order of the protocol
OrdenFases == <<"BYPASS", "SOPORTE", "MORFOLOGIA", "NULIDAD_LOCAL", "NULIDAD_REGIMEN">>

\* the phases were attempted in the protocol's order, each only after all
\* earlier ones had failed, and a phase that succeeded was the last one
\* attempted and is the one the result names
CascadaEnOrden ==
    (ReparoHecho /\ resultado.error = NULL) =>
        /\ Len(resultado.fases) \in 1..Len(OrdenFases)
        /\ \A k \in DOMAIN resultado.fases :
              /\ resultado.fases[k][1] = OrdenFases[k]
              /\ k < Len(resultado.fases) => resultado.fases[k][2] = FALSE
        /\ resultado.fases[Len(resultado.fases)][2] = TRUE =>
              resultado.mensaje \in
                 {"REPAIR-OK (" \o OrdenFases[Len(resultado.fases)] \o ")",
                  "REPAIR-OK (" \o OrdenFases[Len(resultado.fases)] \o " (forzado))"}
        /\ resultado.fases[Len(resultado.fases)][2] = FALSE =>
              Len(resultado.fases) = Len(OrdenFases) /\ resultado.mensaje = "REPAIR-OK"

\* the cell reparar read, as the call found it (the read did not raise and
\* did not yield None)
CeldaLeida == llamada.antes.celdas[Indice(llamada.antes, llamada.pos)]

HuboCelda ==
    /\ ReparoHecho
    /\ resultado.error = NULL
    /\ Indice(llamada.antes, llamada.pos) # 0

\* the call was accepted by the given phase at once and left the matrix as it was
AceptadaPor(fase) ==
    /\ resultado.fases[Len(resultado.fases)] = <<fase, TRUE>>
    /\ mtx_t = llamada.antes

\* C22 as stated: the cascade runs in order and stops at the first success,
\* and a cell that is absorbed or already holds a target token is accepted
\* by Bypass with its token and kind unchanged
C22_Cascada ==
    /\ CascadaEnOrden
    /\ (HuboCelda /\ (CeldaLeida.tipo = "absorbido" \/ Truthy(CeldaLeida.token_tgt)))
          => AceptadaPor("BYPASS")

\* C22, amended: the cascade runs in order and stops at the first success;
\* a cell that is absorbed, or that holds a target token while token_fuente
\* is true, is accepted by Bypass unchanged; a cell that is not absorbed and
\* holds a target token while token_fuente is false fails Bypass and is
\* accepted by Support, also unchanged
C22_CascadaEnmendada ==
    /\ CascadaEnOrden
    /\ (HuboCelda /\ (CeldaLeida.tipo = "absorbido"
                        \/ (llamada.token_fuente /\ Truthy(CeldaLeida.token_tgt))))
          => AceptadaPor("BYPASS")
    /\ (HuboCelda /\ CeldaLeida.tipo # "absorbido" /\ ~llamada.token_fuente
                  /\ Truthy(CeldaLeida.token_tgt))
          => /\ AceptadaPor("SOPORTE")
             /\ resultado.fases[1] = <<"BYPASS", FALSE>>

\* a call on a cell without a token went through Bypass, Support and
\* Morphology, which failed, and stopped at Local Nullity, which succeeded
C22_Testigo ==
    /\ HuboCelda
    /\ resultado.fases = <<<<"BYPASS", FALSE>>, <<"SOPORTE", FALSE>>,
                           <<"MORFOLOGIA", FALSE>>, <<"NULIDAD_LOCAL", TRUE>>>>
    /\ resultado.mensaje = "REPAIR-OK (NULIDAD_LOCAL)"

\* a cell holding a token was accepted by Bypass in a call with token_fuente true
C22_TestigoBypass ==
    /\ HuboCelda
    /\ llamada.token_fuente
    /\ CeldaLeida.tipo # "absorbido"
    /\ Truthy(CeldaLeida.token_tgt)
    /\ AceptadaPor("BYPASS")

\* ------------------------------------------------------------------------
\* Core (core.py): procesar_oracion, one step per slot
\* ------------------------------------------------------------------------
\* an F3 that writes the locution's translation at every position it covers
F3CeldaSinAbsorber(g, ms, m, i) ==
    LET slot == ms.celdas[i].slot
        m1 == [m EXCEPT !.celdas[i].token_src = ms.celdas[i].token_src]
        k == ObtenerLocucionEnPos(g, ms, i - 1)
        loc == LocucionDe(g, ms.locuciones[k])
    IN IF slot.status = "BLOQUEADO"
       THEN IF k = 0 THEN m1
            ELSE [m1 EXCEPT !.celdas[i].token_tgt = loc.tgt, !.celdas[i].tipo = "locucion"]
       ELSE IF slot.clase = "N"
       THEN [m1 EXCEPT !.celdas[i].token_tgt = slot.token_tgt, !.celdas[i].tipo = "normal"]
       ELSE [m1 EXCEPT !.celdas[i].tipo = "pendiente"]

\* _f3_mapeo_matricial for cell i (1-based) of the source matrix
F3Celda(g, ms, m, i) ==
    LET slot == ms.celdas[i].slot
        m1 == [m EXCEPT !.celdas[i].token_src = ms.celdas[i].token_src]
        k == ObtenerLocucionEnPos(g, ms, i - 1)
        loc == LocucionDe(g, ms.locuciones[k])
    IN IF slot.status = "BLOQUEADO"
       THEN IF k = 0 THEN m1
            ELSE IF i - 1 = PrimeraPosicion(loc)
            THEN [m1 EXCEPT !.celdas[i].token_tgt = loc.tgt, !.celdas[i].tipo = "locucion"]
            ELSE MarcarAbsorbido(m1, i - 1)
       ELSE IF slot.clase = "N"
       THEN [m1 EXCEPT !.celdas[i].token_tgt = slot.token_tgt, !.celdas[i].tipo = "normal"]
       ELSE [m1 EXCEPT !.celdas[i].tipo = "pendiente"]

RECURSIVE F3MapeoMatricial(_, _, _, _)
\* _f3_mapeo_matricial from cell i on
F3MapeoMatricial(g, ms, m, i) ==
    IF i > Len(ms.celdas) THEN m
    ELSE F3MapeoMatricial(g, ms, F3Celda(g, ms, m, i), i + 1)

\* a candidate loop that, when no candidate passes, registers the forced
\* first candidate in the glossary
CicloCohesionRegistra(g, m, slot, candidatos, k) ==
    Sea(Reparar([m EXCEPT !.celdas[slot.pos_index + 1].token_tgt = candidatos[k]],
                slot.pos_index, TRUE).m,
        LAMBDA m2 :
            [g |-> FaseBAsignar(g, slot.token_src, candidatos[1], 1, NULL,
                                slot.func_role).g,
             m |-> IF Truthy(ObtenerToken(m2, slot.pos_index)) THEN m2
                   ELSE MarcarNulo([m2 EXCEPT !.celdas[slot.pos_index + 1].token_tgt =
                                                  candidatos[1]], slot.pos_index),
             exito |-> Truthy(ObtenerToken(m2, slot.pos_index)),
             intentos |-> 1])

RECURSIVE CicloCohesion(_, _, _, _, _)
\* the candidate loop of _f4_f7_procesar_particulas from candidate k on:
\* assign, repair (F5), check cohesion (F6), register on success; force the
\* first candidate and mark null when the list is exhausted; intentos counts
\* the iterations of the loop
CicloCohesion(g, m, slot, candidatos, k) ==
    IF k > Len(candidatos)
    THEN [g |-> g,
          m |-> MarcarNulo([m EXCEPT !.celdas[slot.pos_index + 1].token_tgt = candidatos[1]],
                           slot.pos_index),
          exito |-> FALSE, intentos |-> k - 1]
    ELSE Sea(Reparar([m EXCEPT !.celdas[slot.pos_index + 1].token_tgt = candidatos[k]],
                     slot.pos_index, TRUE).m,
             LAMBDA m2 :
                 IF Truthy(ObtenerToken(m2, slot.pos_index))
                 THEN [g |-> FaseBAsignar(g, slot.token_src, candidatos[k], 1, NULL,
                                          slot.func_role).g,
                       m |-> m2, exito |-> TRUE, intentos |-> k]
                 ELSE CicloCohesion(g, m2, slot, candidatos, k + 1))

\* Core.serializar_resultado: the rendered tokens, in order
SerializarResultado(m) ==
    LET render(c) == IF c.tipo = "inyeccion" THEN "[" \o c.token_tgt \o "]"
                     ELSE IF c.tipo = "nulo" THEN "{" \o c.token_tgt \o "}"
                     ELSE c.token_tgt
        visibles == SelectSeq(m.celdas,
                              LAMBDA c : c.tipo # "absorbido" /\ Truthy(c.token_tgt))
    IN [i \in DOMAIN visibles |-> render(visibles[i])]
       \o [i \in DOMAIN m.inyecciones |-> "[" \o m.inyecciones[i].token_tgt \o "]"]

\* no candidate loop has run
SinCiclo == [candidatos |-> <<>>, exito |-> FALSE, intentos |-> 0]

\* what is observed of the resolvers: previos are the <<token, target>> pairs
\* the nucleus resolver assigned in earlier sentences, nuevos those of the
\* running sentence; resueltos are the calls of ProcesadorNucleos.procesar
\* of the running sentence with what each returned and whether it called
\* buscar_raices; traducidas counts the sentences the running traducir handed
\* to _traducir_oracion; fases are the values procesar_oracion has given
\* _fase_actual since the running call began, in order; ciclo is the last
\* candidate loop of the running sentence: the list it was given, whether a
\* candidate passed the cohesion check and how many iterations it made
ObsInicial ==
    [previos |-> {}, nuevos |-> {}, resueltos |-> {}, sinonimia |-> FALSE,
     invocado |-> FALSE, auditoria |-> TRUE, asentadas |-> 0, traducidas |-> 0,
     fases |-> <<>>, ciclo |-> SinCiclo]

\* no sentence has been processed
SinResultado == [exito |-> FALSE, mensaje |-> NULL]

Init ==
    /\ glosario = GlosarioVacio
    /\ gestor = GestorNuevo
    /\ casos = CasosNuevo
    /\ comandos = ComandosNuevo
    /\ config_locs \in {<<>>, <<TextoDe(<<"bi", "nafs">>)>>}
    /\ mtx_s = [celdas |-> <<>>, locuciones |-> <<>>]
    /\ mtx_t = NuevaMatrizTarget(0)
    /\ fase_actual = "INICIO"
    /\ errores = <<>>
    /\ resultado = SinResultado
    /\ pc = "libre"
    /\ idx = 0
    /\ llamada = SinLlamada
    /\ obs = ObsInicial

\* glosario.fase_a_procesar(texto, tokens_clasificados) as
\* _fase_analisis_lexico calls it on a document; this specification follows
\* one document per glossary (SpecSeal repeats the call)
FaseAProcesar ==
    \E doc \in Documentos :
        \E r \in {FaseAProcesarOp(glosario, TextoDe(doc),
                                   TokensClasificados(TextoDe(doc)), config_locs)} :
           /\ pc = "libre"
           /\ ~EstaSellado(glosario)
           /\ glosario' = r.g
           /\ llamada' = [op |-> "fase_a_procesar", error |-> r.error]
           /\ UNCHANGED <<comandos, casos, gestor, config_locs, mtx_s, mtx_t, fase_actual, errores, resultado,
                          pc, idx, obs>>

\* glosario.actualizar_entrada(token, "razon"), the user's override of a
\* registered token
ActualizarEntrada ==
    \E token \in Tokens :
        LET r == ActualizarEntradaOp(glosario, token, "razon")
        IN /\ pc = "libre"
           /\ Registrado(glosario, token)
           /\ Len(glosario.historial) < MaxHist
           /\ glosario' = r.g
           /\ llamada' = [op |-> "actualizar_entrada", ret |-> r.ret]
           /\ obs' = [obs EXCEPT !.previos = {p \in @ : p[1] # token},
                                 !.nuevos = {p \in @ : p[1] # token}]
           /\ UNCHANGED <<comandos, casos, gestor, config_locs, mtx_s, mtx_t, fase_actual, errores, resultado,
                          pc, idx>>

\* an F1 whose fase_b_verificar_existencia never raises
PrimerNoRegistradoNunca(g, ms) == 0

\* index (1-based) of the first source cell whose token has no entry, 0 if none
PrimerNoRegistrado(g, ms) ==
    LET malos == {i \in DOMAIN ms.celdas : ~Registrado(g, ms.celdas[i].token_src)}
    IN IF malos = {} THEN 0 ELSE CHOOSE i \in malos : \A j \in malos : i <= j

\* _crear_matriz_fuente(texto) against glossary g, then procesar_oracion up
\* to the end of F1
IniciarCon(g, texto) ==
    \E ms \in {CrearMatrizFuente(g, texto)} :
    \E malo \in {PrimerNoRegistrado(g, ms)} :
        /\ mtx_s' = ms
        /\ mtx_t' = NuevaMatrizTarget(Len(ms.celdas))
        /\ idx' = 1
        /\ IF malo # 0
           THEN /\ fase_actual' = "F1_INICIALIZACION"
                /\ errores' = <<[tipo |-> "TOKEN_NO_REGISTRADO",
                                 token |-> ms.celdas[malo].token_src,
                                 posicion |-> ms.celdas[malo].pos]>>
                /\ resultado' = [exito |-> FALSE,
                                 mensaje |-> "FALLO CRITICO: Token no registrado"]
                /\ pc' = "libre"
           ELSE /\ fase_actual' = "F2_NUCLEOS"
                /\ errores' = <<>>
                /\ resultado' = SinResultado
                /\ pc' = "F2"

\* the observation at the start of a sentence
ObsOracion(o) ==
    [o EXCEPT !.previos = @ \cup o.nuevos, !.nuevos = {}, !.resueltos = {},
              !.sinonimia = FALSE, !.invocado = FALSE, !.auditoria = TRUE,
              !.asentadas = 0, !.ciclo = SinCiclo]

\* the phases procesar_oracion has entered when F1 ends in the phase fase
ObsFases(o, fase) ==
    [o EXCEPT !.fases = IF fase = "F1_INICIALIZACION" THEN <<"F1_INICIALIZACION">>
                        ELSE <<"F1_INICIALIZACION", "F2_NUCLEOS">>]

\* core.procesar_oracion(_crear_matriz_fuente(oracion)) up to the end of F1
IniciarOracion ==
    \E oracion \in Oraciones :
        /\ pc = "libre"
        /\ Len(glosario.historial) + Len(oracion) <= MaxHist
        /\ IniciarCon(glosario, TextoDe(oracion))
        /\ llamada' = [op |-> "procesar_oracion", oracion |-> oracion, g0 |-> glosario]
        /\ obs' = ObsFases(ObsOracion(obs), fase_actual')
        /\ UNCHANGED <<comandos, casos, gestor, glosario, config_locs>>

\* one iteration of the loop of _f2_procesar_nucleos
F2Paso ==
    /\ pc = "F2"
    /\ idx <= Len(SlotsDe(mtx_s, "N"))
    /\ \E r \in {ProcesarNucleo(glosario, mtx_s.celdas[SlotsDe(mtx_s, "N")[idx]].slot)} :
       LET i == SlotsDe(mtx_s, "N")[idx]
           slot == mtx_s.celdas[i].slot
           tgt == IF r.res.restart THEN ObtenerTraduccion(r.g, slot.token_src, NULL)
                  ELSE r.res.token_tgt
           asignado == /\ r.res.exito /\ ~r.res.bloqueado
                       /\ r.g.entradas[slot.token_src] # glosario.entradas[slot.token_src]
       IN IF slot.status = "BLOQUEADO"
          THEN /\ mtx_t' = [mtx_t EXCEPT !.celdas[i].tipo = "parte_locucion"]
               /\ UNCHANGED <<comandos, casos, gestor, glosario, mtx_s, obs>>
          ELSE /\ glosario' = r.g
               /\ mtx_s' = [mtx_s EXCEPT !.celdas[i].slot =
                               IF r.res.bloqueado THEN r.slot
                               ELSE [r.slot EXCEPT !.token_tgt = tgt]]
               /\ mtx_t' = IF r.res.bloqueado /\ ~r.res.restart
                           THEN [mtx_t EXCEPT !.celdas[i].tipo = "parte_locucion"]
                           ELSE mtx_t
               /\ obs' = [obs EXCEPT
                             !.invocado = TRUE,
                             !.sinonimia = @ \/ r.sinonimia,
                             !.resueltos = @ \cup {[token |-> slot.token_src,
                                                     exito |-> r.res.exito,
                                                     bloqueado |-> r.res.bloqueado,
                                                     token_tgt |-> r.res.token_tgt,
                                                     busco |-> r.busco]},
                             !.nuevos = IF asignado
                                        THEN @ \cup {<<slot.token_src,
                                                       r.g.entradas[slot.token_src].token_tgt>>}
                                        ELSE @]
    /\ idx' = idx + 1
    /\ UNCHANGED <<comandos, casos, gestor, config_locs, fase_actual, errores, resultado, pc, llamada>>

\* the end of the F2 loop, then _f3_mapeo_matricial
F3Mapeo ==
    /\ pc = "F2"
    /\ idx > Len(SlotsDe(mtx_s, "N"))
    /\ mtx_t' = F3MapeoMatricial(glosario, mtx_s, mtx_t, 1)
    /\ fase_actual' = "F4_F7_PARTICULAS"
    /\ obs' = [obs EXCEPT !.fases = @ \o <<"F3_MAPEO", "F4_F7_PARTICULAS">>]
    /\ pc' = "F4"
    /\ idx' = 1
    /\ UNCHANGED <<comandos, casos, gestor, glosario, config_locs, mtx_s, errores, resultado, llamada>>

\* an iteration of the particle loop that aborts the sentence when the
\* resolver returns no candidates
F4PasoAborta ==
    /\ pc = "F4"
    /\ idx <= Len(SlotsDe(mtx_s, "P"))
    /\ \E r \in {ProcesarParticula(glosario, mtx_s,
                                    mtx_s.celdas[SlotsDe(mtx_s, "P")[idx]].slot)} :
       \E c \in {IF r.candidatos = <<>> THEN [g |-> glosario, m |-> mtx_t, exito |-> FALSE]
                 ELSE CicloCohesion(glosario, mtx_t, r.slot, r.candidatos, 1)} :
       LET i == SlotsDe(mtx_s, "P")[idx]
           slot == mtx_s.celdas[i].slot
       IN IF slot.status = "BLOQUEADO"
          THEN /\ idx' = idx + 1
               /\ UNCHANGED <<comandos, casos, gestor, glosario, mtx_s, mtx_t, obs, resultado, pc>>
          ELSE /\ mtx_s' = [mtx_s EXCEPT !.celdas[i].slot = r.slot]
               /\ IF r.candidatos = <<>>
                  THEN /\ resultado' = [exito |-> FALSE, mensaje |-> "FALLO CRITICO"]
                       /\ pc' = "libre"
                       /\ idx' = idx
                       /\ UNCHANGED <<glosario, mtx_t, obs>>
                  ELSE /\ mtx_t' = c.m
                       /\ glosario' = c.g
                       /\ obs' = [obs EXCEPT
                                     !.invocado = TRUE,
                                     !.asentadas = 1,
                                     !.auditoria = @ /\ VerificarIsomorfismo(c.m, mtx_s.celdas)]
                       /\ idx' = idx + 1
                       /\ UNCHANGED <<resultado, pc>>
    /\ UNCHANGED <<comandos, casos, gestor, config_locs, fase_actual, errores, llamada>>

\* the body of the loop of _f4_f7_procesar_particulas for the slot at idx,
\* given what the particle processor returned for it
F4Iteracion(r) ==
    \E c \in {IF r.candidatos = <<>> THEN [g |-> glosario, m |-> mtx_t, exito |-> FALSE]
              ELSE CicloCohesion(glosario, mtx_t, r.slot, r.candidatos, 1)} :
    LET i == SlotsDe(mtx_s, "P")[idx]
        slot == mtx_s.celdas[i].slot
    IN IF slot.status = "BLOQUEADO"
       THEN UNCHANGED <<comandos, casos, gestor, glosario, mtx_s, mtx_t, obs>>
       ELSE /\ mtx_s' = [mtx_s EXCEPT !.celdas[i].slot = r.slot]
            /\ IF r.candidatos = <<>>
               THEN /\ mtx_t' = [mtx_t EXCEPT !.celdas[i].token_tgt = slot.token_src,
                                              !.celdas[i].tipo = "sin_traduccion"]
                    /\ glosario' = glosario
                    /\ obs' = [obs EXCEPT !.invocado = TRUE, !.ciclo = SinCiclo]
               ELSE /\ mtx_t' = c.m
                    /\ glosario' = c.g
                    /\ obs' = [obs EXCEPT
                                  !.invocado = TRUE,
                                  !.asentadas = 1,
                                  !.auditoria = @ /\ VerificarIsomorfismo(c.m, mtx_s.celdas),
                                  !.ciclo = [candidatos |-> r.candidatos,
                                             exito |-> c.exito,
                                             intentos |-> c.intentos]]

\* one iteration of the loop of _f4_f7_procesar_particulas
F4Paso ==
    /\ pc = "F4"
    /\ idx <= Len(SlotsDe(mtx_s, "P"))
    /\ \E r \in {ProcesarParticula(glosario, mtx_s,
                                    mtx_s.celdas[SlotsDe(mtx_s, "P")[idx]].slot)} :
          F4Iteracion(r)
    /\ idx' = idx + 1
    /\ UNCHANGED <<comandos, casos, gestor, config_locs, fase_actual, errores, resultado, pc, llamada>>

\* an end of the particle loop that goes back to the nucleus phase
FinalizarHaciaAtras ==
    /\ pc = "F4"
    /\ idx > Len(SlotsDe(mtx_s, "P"))
    /\ fase_actual' = "F2_NUCLEOS"
    /\ obs' = [obs EXCEPT !.fases = Append(@, "F2_NUCLEOS")]
    /\ resultado' = [exito |-> TRUE, mensaje |-> "[CORE-OK]"]
    /\ pc' = "libre"
    /\ UNCHANGED <<comandos, casos, gestor, glosario, config_locs, mtx_s, mtx_t, errores, idx, llamada>>

\* the end of the particle loop: CORE_OK
Finalizar ==
    /\ pc = "F4"
    /\ idx > Len(SlotsDe(mtx_s, "P"))
    /\ fase_actual' = "CORE_OK"
    /\ obs' = [obs EXCEPT !.fases = Append(@, "CORE_OK")]
    /\ resultado' = [exito |-> TRUE, mensaje |-> "[CORE-OK]"]
    /\ pc' = "libre"
    /\ UNCHANGED <<comandos, casos, gestor, glosario, config_locs, mtx_s, mtx_t, errores, idx, llamada>>

Next ==
    \/ FaseAProcesar
    \/ ActualizarEntrada
    \/ IniciarOracion
    \/ F2Paso
    \/ F3Mapeo
    \/ F4Paso
    \/ Finalizar

Spec == Init /\ [][Next]_vars

\* a sentence is being processed or was the last operation
EnOracion == llamada.op = "procesar_oracion"

\* procesar_oracion returned CORE_OK
CoreOk == EnOracion /\ pc = "libre" /\ fase_actual = "CORE_OK"

\* C1: from F1 on the target matrix has exactly as many cells as the source
\* matrix, through the nucleus loop, the mapping, the particle loop and its
\* repairs, and every F7 audit of the particle loop returned true
C1_Isomorfismo ==
    EnOracion =>
        /\ mtx_t.size = Len(mtx_s.celdas)
        /\ Len(mtx_t.celdas) = Len(mtx_s.celdas)
        /\ VerificarIsomorfismo(mtx_t, mtx_s.celdas)
        /\ obs.auditoria

\* a two-cell sentence with a locution head, an absorbed cell or a settled
\* particle reached CORE_OK
C1_Testigo ==
    /\ CoreOk
    /\ mtx_t.size = 2
    /\ obs.asentadas = 1

\* C3: every call of ProcesadorNucleos.procesar on a token the nucleus
\* resolver assigned in an earlier sentence resolves it to that same target
\* and does not call buscar_raices
C3_CacheHit ==
    EnOracion =>
        \A c \in obs.resueltos : \A p \in obs.previos :
            p[1] = c.token =>
                /\ c.exito
                /\ ~c.bloqueado
                /\ c.token_tgt = p[2]
                /\ ~c.busco

\* a later sentence resolved a token assigned in an earlier one
C3_Testigo ==
    /\ EnOracion
    /\ \E c \in obs.resueltos : \E p \in obs.previos :
          p[1] = c.token /\ c.exito /\ c.token_tgt = p[2]

\* C4: a SinonimiaError raised while resolving a nucleus in F2 aborts the
\* sentence: CORE_OK is not reached and the result has exito = False and
\* carries the fault
C4_SinonimiaAborta ==
    (EnOracion /\ obs.sinonimia) =>
        /\ fase_actual # "CORE_OK"
        /\ pc = "libre" => (~resultado.exito /\ errores # <<>>)

\* C5: a sentence with a token that has no glossary entry aborts in F1 with
\* exito = False and exactly one TOKEN_NO_REGISTRADO error carrying the first
\* such token and its position; no resolver runs and the glossary is as it
\* was before the sentence
C5_TokenNoRegistrado ==
    (EnOracion /\ \E i \in DOMAIN mtx_s.celdas :
                     ~Registrado(llamada.g0, mtx_s.celdas[i].token_src)) =>
        /\ pc = "libre"
        /\ fase_actual = "F1_INICIALIZACION"
        /\ ~resultado.exito
        /\ Len(errores) = 1
        /\ errores[1].tipo = "TOKEN_NO_REGISTRADO"
        /\ errores[1].posicion \in 0..(Len(mtx_s.celdas) - 1)
        /\ errores[1].token = mtx_s.celdas[errores[1].posicion + 1].token_src
        /\ ~Registrado(llamada.g0, errores[1].token)
        /\ \A i \in 1..errores[1].posicion :
              Registrado(llamada.g0, mtx_s.celdas[i].token_src)
        /\ ~obs.invocado
        /\ glosario = llamada.g0

\* a sentence whose first token is registered and whose second is not
C5_Testigo ==
    /\ EnOracion
    /\ Len(mtx_s.celdas) = 2
    /\ Registrado(llamada.g0, mtx_s.celdas[1].token_src)
    /\ ~Registrado(llamada.g0, mtx_s.celdas[2].token_src)
    /\ Len(errores) = 1
    /\ errores[1].posicion = 1

\* C10: at CORE_OK every source position has a non-empty target token, and
\* the serialized output has one token for each position that is not absorbed
C10_Inmunidad ==
    CoreOk =>
        /\ \A i \in DOMAIN mtx_s.celdas : Truthy(mtx_t.celdas[i].token_tgt)
        /\ Len(SerializarResultado(mtx_t)) =
              Cardinality({i \in DOMAIN mtx_t.celdas : mtx_t.celdas[i].tipo # "absorbido"})
              + Len(mtx_t.inyecciones)

\* the values of _fase_actual in the order procesar_oracion assigns them
OrdenFasesCore ==
    <<"F1_INICIALIZACION", "F2_NUCLEOS", "F3_MAPEO", "F4_F7_PARTICULAS", "CORE_OK">>

\* the call of procesar_oracion is still running
OracionEnCurso == EnOracion /\ pc # "libre"

\* the call of procesar_oracion has returned
OracionTerminada == EnOracion /\ pc = "libre"

\* the phases entered so far are an initial stretch of the order, the
\* current phase is the last of them, and a call that returned ended in
\* CORE_OK with exito = True or before it with exito = False
FasesEnOrden ==
    EnOracion =>
        /\ Len(obs.fases) \in 1..Len(OrdenFasesCore)
        /\ obs.fases = SubSeq(OrdenFasesCore, 1, Len(obs.fases))
        /\ fase_actual = obs.fases[Len(obs.fases)]
        /\ pc = "libre" =>
              \/ fase_actual = "CORE_OK" /\ resultado.exito
              \/ fase_actual # "CORE_OK" /\ ~resultado.exito
        /\ pc # "libre" => fase_actual # "CORE_OK"

\* C23: within one call of procesar_oracion the phase takes the values
\* F1_INICIALIZACION, F2_NUCLEOS, F3_MAPEO, F4_F7_PARTICULAS, CORE_OK in that
\* order and never goes back, and every call ends, either in CORE_OK with
\* exito = True or in an early abort with exito = False
C23_SoloAvanza == []FasesEnOrden /\ (OracionEnCurso ~> OracionTerminada)

\* a call went through all five phases and returned CORE_OK
C23_Testigo ==
    /\ OracionTerminada
    /\ obs.fases = OrdenFasesCore
    /\ resultado.exito
    /\ Len(mtx_s.celdas) = MaxLen

\* a call aborted in F1
C23_TestigoAborto ==
    /\ OracionTerminada
    /\ obs.fases = <<"F1_INICIALIZACION">>
    /\ ~resultado.exito

\* procesar_oracion runs to its return: each loop advances while it has a
\* slot left
SpecJusto == Spec /\ WF_vars(F2Paso \/ F3Mapeo \/ F4Paso \/ Finalizar)

\* _f3_mapeo_matricial has just returned: the particle loop has not started
TrasF3 == EnOracion /\ pc = "F4" /\ idx = 1

\* the locution obtener_locucion_en_pos gives for cell i (1-based) of mtx_s
LocucionEn(i) ==
    LocucionDe(glosario, mtx_s.locuciones[ObtenerLocucionEnPos(glosario, mtx_s, i - 1)])

\* a locution of the source matrix covers cell i
Cubierta(i) == ObtenerLocucionEnPos(glosario, mtx_s, i - 1) # 0

\* C24: when _f3_mapeo_matricial returns, at every position: the first
\* position of the locution covering it holds the locution's translation
\* with kind locucion, a later position of that locution is absorbed, a
\* resolved Nucleus that is not locked holds its slot's target with kind
\* normal, and a Particle that is not locked has kind pendiente
C24_Proyeccion ==
    TrasF3 =>
       \A i \in DOMAIN mtx_s.celdas :
          LET slot == mtx_s.celdas[i].slot
              celda == mtx_t.celdas[i]
          IN /\ (Cubierta(i) /\ i - 1 = PrimeraPosicion(LocucionEn(i)))
                   => celda.token_tgt = LocucionEn(i).tgt /\ celda.tipo = "locucion"
             /\ (Cubierta(i) /\ i - 1 # PrimeraPosicion(LocucionEn(i)))
                   => celda.tipo = "absorbido"
             /\ (slot.clase = "N" /\ slot.status # "BLOQUEADO" /\ slot.token_tgt # NULL)
                   => celda.token_tgt = slot.token_tgt /\ celda.tipo = "normal"
             /\ (slot.clase = "P" /\ slot.status # "BLOQUEADO")
                   => celda.tipo = "pendiente"

\* F3 has projected a locution of two positions: its head cell has kind
\* locucion and the other cell is absorbed
C24_Testigo ==
    /\ TrasF3
    /\ Len(mtx_s.celdas) = 2
    /\ Cubierta(1) /\ Cubierta(2)
    /\ mtx_t.celdas[1].tipo = "locucion"
    /\ mtx_t.celdas[2].tipo = "absorbido"

\* F3 has projected a resolved nucleus and a pending particle
C24_TestigoNormal ==
    /\ TrasF3
    /\ \E i, j \in DOMAIN mtx_s.celdas :
          /\ mtx_s.celdas[i].slot.clase = "N"
          /\ Truthy(mtx_s.celdas[i].slot.token_tgt)
          /\ mtx_t.celdas[i].tipo = "normal"
          /\ mtx_s.celdas[j].slot.clase = "P"
          /\ mtx_t.celdas[j].tipo = "pendiente"

\* the particle loop is at a particle that is not locked and for which the
\* resolver returns no candidates
SinCandidatos ==
    /\ EnOracion
    /\ pc = "F4"
    /\ idx <= Len(SlotsDe(mtx_s, "P"))
    /\ LET r == ProcesarParticula(glosario, mtx_s,
                                  mtx_s.celdas[SlotsDe(mtx_s, "P")[idx]].slot)
       IN ~r.bloqueado /\ r.candidatos = <<>>

\* the iteration left the position marked sin_traduccion with the source
\* token, wrote nothing to the glossary, raised no error and went on to the
\* next particle
MarcadaSinTraduccion ==
    LET i == SlotsDe(mtx_s, "P")[idx]
    IN /\ mtx_t'.celdas[i].tipo = "sin_traduccion"
       /\ mtx_t'.celdas[i].token_tgt = mtx_s.celdas[i].token_src
       /\ glosario' = glosario
       /\ errores' = errores
       /\ pc' = "F4"
       /\ idx' = idx + 1

\* some position of the running sentence is marked sin_traduccion
Degradada ==
    /\ EnOracion
    /\ pc = "F4"
    /\ \E i \in DOMAIN mtx_t.celdas : mtx_t.celdas[i].tipo = "sin_traduccion"

\* C25: when the resolver returns no candidates for a pending particle the
\* position is marked sin_traduccion, the glossary is left as it was, the
\* loop goes on with the next particle, and the sentence goes on to end in
\* CORE_OK
C25_SinCandidatos ==
    /\ [][SinCandidatos => MarcadaSinTraduccion]_vars
    /\ (Degradada ~> CoreOk)

\* a sentence ended in CORE_OK with a position marked sin_traduccion that
\* holds the source token, and the particle's entry has no target
C25_Testigo ==
    /\ CoreOk
    /\ resultado.exito
    /\ \E i \in DOMAIN mtx_t.celdas :
          /\ mtx_t.celdas[i].tipo = "sin_traduccion"
          /\ mtx_t.celdas[i].token_tgt = "law"
          /\ glosario.entradas["law"].token_tgt = NULL

\* the function role the particle resolver uses for a slot
\* (_f3_analisis_relacional): the slot's tag, else the inferred role
RolUsado(slot) ==
    IF slot.func_role # NULL THEN slot.func_role ELSE InferirFuncion(slot.token_src)

\* the particle loop of the running sentence has locked a candidate in at
\* cell i: the slot is not locked and the cell holds a token that passed the
\* cohesion check (a forced candidate is marked nulo, an empty list
\* sin_traduccion)
Fijada(i) ==
    /\ EnOracion
    /\ pc \in {"F4", "libre"}
    /\ mtx_s.celdas[i].slot.clase = "P"
    /\ mtx_s.celdas[i].slot.status # "BLOQUEADO"
    /\ mtx_t.celdas[i].tipo = "pendiente"
    /\ Truthy(mtx_t.celdas[i].token_tgt)

\* C26: a candidate that passed the cohesion check is stored in the glossary
\* under the function role the resolver used, inferred or tagged, and
\* obtener_traduccion(token, role) finds it
C26_LockIn ==
    \A i \in DOMAIN mtx_s.celdas :
       Fijada(i) =>
          LET slot == mtx_s.celdas[i].slot
              entrada == glosario.entradas[slot.token_src]
          IN /\ entrada.traducciones_por_funcion[RolUsado(slot)] = mtx_t.celdas[i].token_tgt
             /\ ObtenerTraduccion(glosario, slot.token_src, RolUsado(slot))
                   = mtx_t.celdas[i].token_tgt

\* a candidate was locked in for a particle whose role was inferred, and the
\* entry holds no target under any role
C26_SinRol ==
    \E i \in DOMAIN mtx_s.celdas :
       /\ Fijada(i)
       /\ mtx_s.celdas[i].slot.func_role = NULL
       /\ glosario.entradas[mtx_s.celdas[i].slot.token_src].token_tgt
             = mtx_t.celdas[i].token_tgt
       /\ \A f \in FuncRoles :
             glosario.entradas[mtx_s.celdas[i].slot.token_src].traducciones_por_funcion[f] = NULL

\* ------------------------------------------------------------------------
\* SpecInyectado: procesar_oracion with an injected particle processor
\* (set_procesador_particulas) whose candidate lists are arbitrary
\* ------------------------------------------------------------------------
\* most candidates in a list
MaxCandInyectados == 2

\* the lists procesar hands back under "candidatos": none, words, and the
\* empty string, which fails the cohesion check
ListasCandidatos == SeqsHasta({"", "por"}, MaxCandInyectados)

\* one iteration of the loop of _f4_f7_procesar_particulas over what the
\* injected processor returns
F4PasoInyectado ==
    /\ pc = "F4"
    /\ idx <= Len(SlotsDe(mtx_s, "P"))
    /\ \E candidatos \in ListasCandidatos :
          F4Iteracion([slot |-> mtx_s.celdas[SlotsDe(mtx_s, "P")[idx]].slot,
                       candidatos |-> candidatos, bloqueado |-> FALSE])
    /\ idx' = idx + 1
    /\ UNCHANGED <<comandos, casos, gestor, config_locs, fase_actual, errores, resultado, pc, llamada>>

NextInyectado ==
    \/ FaseAProcesar
    \/ IniciarOracion
    \/ F2Paso
    \/ F3Mapeo
    \/ F4PasoInyectado
    \/ Finalizar

SpecInyectado == Init /\ [][NextInyectado]_vars

\* the step is an iteration of the particle loop whose candidate loop ran
\* and ended without a candidate passing the cohesion check
CicloAgotado ==
    /\ EnOracion
    /\ pc = "F4"
    /\ idx <= Len(SlotsDe(mtx_s, "P"))
    /\ idx' = idx + 1
    /\ mtx_s.celdas[SlotsDe(mtx_s, "P")[idx]].slot.status # "BLOQUEADO"
    /\ obs'.ciclo # SinCiclo
    /\ ~obs'.ciclo.exito

\* the cell holds the first candidate and is marked nulo, the glossary is as
\* it was, and the loop made no more iterations than the list has candidates
TerminalForzado ==
    LET i == SlotsDe(mtx_s, "P")[idx]
    IN /\ mtx_t'.celdas[i].token_tgt = obs'.ciclo.candidatos[1]
       /\ mtx_t'.celdas[i].tipo = "nulo"
       /\ glosario' = glosario
       /\ obs'.ciclo.intentos <= Len(obs'.ciclo.candidatos)

\* C27: when every candidate of a non-empty list fails the cohesion check,
\* the cell is assigned the first candidate and marked nulo, nothing is
\* written to the glossary, and the candidate loop has made at most
\* len(candidatos) iterations
C27_TerminalForzado == [][CicloAgotado => TerminalForzado]_vars

\* a candidate loop over two candidates ended without a pass after two
\* iterations and left a cell marked nulo
C27_Testigo ==
    /\ EnOracion
    /\ obs.ciclo # SinCiclo
    /\ ~obs.ciclo.exito
    /\ Len(obs.ciclo.candidatos) = 2
    /\ obs.ciclo.intentos = 2
    /\ \E i \in DOMAIN mtx_t.celdas :
          /\ mtx_t.celdas[i].tipo = "nulo"
          /\ mtx_t.celdas[i].token_tgt = obs.ciclo.candidatos[1]

\* ------------------------------------------------------------------------
\* SpecGlos: Phase B of the Glosario called directly (glossary.py)
\* ------------------------------------------------------------------------
\* the targets and tokens handed to Phase B: a nucleus and a particle
Targets == {"alma", "razon", ""}

TokensB == {"nafs", "bi"}

\* the <<margen, etiqueta>> pairs handed to fase_b_asignar: the defaults and
\* those of a COLLISION resolution
Margenes == {<<1, NULL>>, <<5, "COLLISION">>}

\* the calls of fase_b_asignar, as <<token, tgt, <<margen, etiqueta>>, func_role>>:
\* the nucleus with every target and margin, the particle with every target
\* under no role and under two roles, and one call of each with the other's
\* kind of argument
ArgsAsignar ==
    {<<"nafs", tgt, me, NULL>> : tgt \in Targets, me \in Margenes}
    \cup {<<"bi", tgt, <<1, NULL>>, rol>> :
             tgt \in {"alma", "razon"}, rol \in {NULL, "REGIMEN", "COPULA"}}
    \cup {<<"bi", "", <<1, NULL>>, NULL>>, <<"bi", "alma", <<5, "COLLISION">>, NULL>>,
          <<"nafs", "alma", <<1, NULL>>, "REGIMEN">>}

\* the documents sealed before Phase B is called
DocumentosB == {<<"nafs">>, <<"bi", "nafs">>}

\* glosario.fase_a_procesar(texto, tokens_clasificados) on one of them
GlosFaseA ==
    \E doc \in DocumentosB :
        \E r \in {FaseAProcesarOp(glosario, TextoDe(doc),
                                   TokensClasificados(TextoDe(doc)), config_locs)} :
           /\ pc = "libre"
           /\ ~EstaSellado(glosario)
           /\ glosario' = r.g
           /\ llamada' = [op |-> "fase_a_procesar", error |-> r.error]
           /\ UNCHANGED <<comandos, casos, gestor, config_locs, mtx_s, mtx_t, fase_actual, errores, resultado,
                          pc, idx, obs>>

\* glosario.fase_b_verificar_sinonimia(token, tgt)
GlosVerificarSinonimia ==
    \E token \in TokensB, tgt \in Targets :
        /\ pc = "libre"
        /\ llamada' = [op |-> "fase_b_verificar_sinonimia", token |-> token, tgt |-> tgt,
                       antes |-> glosario,
                       error |-> IF FaseBVerificarSinonimia(glosario, token, tgt)
                                 THEN NULL ELSE "SinonimiaError"]
        /\ UNCHANGED <<comandos, casos, gestor, glosario, config_locs, mtx_s, mtx_t, fase_actual, errores,
                       resultado, pc, idx, obs>>

\* glosario.fase_b_asignar(token, tgt, func_role=func_role)
GlosAsignar ==
    \E args \in ArgsAsignar :
    \E token \in {args[1]}, tgt \in {args[2]}, me \in {args[3]}, func_role \in {args[4]} :
    \E r \in {FaseBAsignar(glosario, token, tgt, me[1], me[2], func_role)} :
        /\ pc = "libre"
        /\ Len(glosario.historial) < MaxHist
        /\ glosario' = r.g
        /\ llamada' = [op |-> "fase_b_asignar", token |-> token, tgt |-> tgt,
                       func_role |-> func_role, margen |-> me[1], etiqueta |-> me[2],
                       antes |-> glosario,
                       ret |-> r.ret, error |-> r.error]
        /\ UNCHANGED <<comandos, casos, gestor, config_locs, mtx_s, mtx_t, fase_actual, errores, resultado,
                       pc, idx, obs>>

\* glosario.actualizar_entrada(token, tgt), the Phase C command of the user
GlosActualizar ==
    \E token \in TokensB, tgt \in {"razon", ""} :
    \E r \in {ActualizarEntradaOp(glosario, token, tgt)} :
        /\ pc = "libre"
        /\ Len(glosario.historial) < MaxHist
        /\ glosario' = r.g
        /\ llamada' = [op |-> "actualizar_entrada", token |-> token, tgt |-> tgt,
                       antes |-> glosario, ret |-> <<r.ret, r.afectadas>>,
                       error |-> NULL]
        /\ UNCHANGED <<comandos, casos, gestor, config_locs, mtx_s, mtx_t, fase_actual, errores, resultado,
                       pc, idx, obs>>

\* Glosario.importar_json(glosario.exportar_json())
GlosImportar ==
    /\ pc = "libre"
    /\ glosario.entradas # <<>>
    /\ llamada' = [op |-> "importar_json",
                   importado |-> ImportarJson(ExportarJson(glosario))]
    /\ UNCHANGED <<comandos, casos, gestor, glosario, config_locs, mtx_s, mtx_t, fase_actual, errores,
                   resultado, pc, idx, obs>>

NextGlos ==
    \/ GlosFaseA
    \/ GlosVerificarSinonimia
    \/ GlosAsignar
    \/ GlosActualizar
    \/ GlosImportar

SpecGlos == Init /\ [][NextGlos]_vars

\* the last call was a Phase B call on a Nucleus entry holding a non-empty target
EnFaseBNucleo ==
    /\ llamada.op \in {"fase_b_verificar_sinonimia", "fase_b_asignar"}
    /\ Registrado(llamada.antes, llamada.token)
    /\ llamada.antes.entradas[llamada.token].categoria = "NUCLEO"
    /\ Truthy(llamada.antes.entradas[llamada.token].token_tgt)

\* C2: a Phase B call (fase_b_verificar_sinonimia or fase_b_asignar) on a
\* Nucleus entry that holds a non-empty target X fails with SinonimiaError
\* exactly when the proposed target differs from X, and in every case leaves
\* the entry, and so its target, as it was
C2_InvarianzaNucleo ==
    EnFaseBNucleo =>
        /\ glosario.entradas[llamada.token] = llamada.antes.entradas[llamada.token]
        /\ (llamada.tgt # llamada.antes.entradas[llamada.token].token_tgt)
              <=> (llamada.error = "SinonimiaError")

\* fase_b_asignar with another target failed on an entry Phase B had assigned
C2_Testigo ==
    /\ EnFaseBNucleo
    /\ llamada.op = "fase_b_asignar"
    /\ llamada.antes.entradas[llamada.token].status = "ASIGNADO"
    /\ llamada.error = "SinonimiaError"

\* C11: a glossary entry whose status is BLOQUEADO (its token belongs to a
\* locution) keeps that status and its target through every step other than
\* the user's actualizar_entrada: it never becomes ASIGNADO and never receives
\* a target of its own
C11_ComponentesBloqueados ==
    [][llamada'.op # "actualizar_entrada" =>
          \A t \in DOMAIN glosario.entradas :
             glosario.entradas[t].status = "BLOQUEADO" =>
                /\ t \in DOMAIN glosario'.entradas
                /\ glosario'.entradas[t].status = "BLOQUEADO"
                /\ glosario'.entradas[t].token_tgt = glosario.entradas[t].token_tgt]_vars

\* the last call acted on a Nucleus entry that held a non-empty target
SobreNucleoAsignado ==
    /\ Registrado(llamada.antes, llamada.token)
    /\ llamada.antes.entradas[llamada.token].categoria = "NUCLEO"
    /\ Truthy(llamada.antes.entradas[llamada.token].token_tgt)

\* the call before the last one was actualizar_entrada on the same token
TrasActualizar ==
    /\ llamada.antes.historial # <<>>
    /\ llamada.antes.historial[Len(llamada.antes.historial)] =
          [accion |-> "ACTUALIZACION_USUARIO", token |-> llamada.token]

\* C12: on a Nucleus entry assigned X, fase_b_asignar with Y # X raises
\* SinonimiaError; actualizar_entrada(T, Y) never raises, sets the target to Y
\* and returns (True, n) with n the recorded occurrences of T; and
\* fase_b_asignar(T, Y) issued right after it succeeds and leaves the target Y
C12_EscenarioD ==
    /\ (llamada.op = "fase_b_asignar" /\ SobreNucleoAsignado
           /\ llamada.tgt # llamada.antes.entradas[llamada.token].token_tgt)
          => llamada.error = "SinonimiaError"
    /\ (llamada.op = "actualizar_entrada" /\ SobreNucleoAsignado) =>
          /\ llamada.error = NULL
          /\ llamada.ret = <<TRUE, Len(llamada.antes.entradas[llamada.token].ocurrencias)>>
          /\ glosario.entradas[llamada.token].token_tgt = llamada.tgt
    /\ (llamada.op = "fase_b_asignar" /\ TrasActualizar
           /\ llamada.antes.entradas[llamada.token].categoria = "NUCLEO"
           /\ llamada.tgt = llamada.antes.entradas[llamada.token].token_tgt) =>
          /\ llamada.error = NULL
          /\ glosario.entradas[llamada.token].token_tgt = llamada.tgt

\* a nucleus was assigned, the user replaced its target by another one, and
\* fase_b_asignar with the new target then succeeded
C12_Testigo ==
    /\ llamada.op = "fase_b_asignar"
    /\ TrasActualizar
    /\ SobreNucleoAsignado
    /\ \E k \in DOMAIN llamada.antes.historial :
          llamada.antes.historial[k] = [accion |-> "ASIGNACION", token |-> llamada.token]
    /\ llamada.tgt = "razon"
    /\ llamada.error = NULL
    /\ glosario.entradas[llamada.token].token_tgt = "razon"

\* C13: the glossary rebuilt by importar_json(exportar_json(g)) has the same
\* entries as g (category, target, status, margin, occurrences, tag and
\* per-function targets), the same locutions and the same seal state
C13_IdaYVuelta ==
    llamada.op = "importar_json" =>
        /\ llamada.importado.entradas = glosario.entradas
        /\ llamada.importado.locuciones = glosario.locuciones
        /\ llamada.importado.sellado = glosario.sellado

\* the last call was fase_b_asignar with a function role on a Particle entry
EnAsignarParticula ==
    /\ llamada.op = "fase_b_asignar"
    /\ llamada.func_role # NULL
    /\ Registrado(llamada.antes, llamada.token)
    /\ llamada.antes.entradas[llamada.token].categoria = "PARTICULA"

\* C14: fase_b_asignar(P, y, func_role=R2) on a Particle never raises, makes
\* obtener_traduccion(P, R2) = y, and leaves obtener_traduccion(P, R1) at the
\* target x an earlier fase_b_asignar(P, x, func_role=R1) stored, for R1 # R2
C14_Polivalencia ==
    EnAsignarParticula =>
        /\ llamada.error = NULL
        /\ llamada.ret
        /\ ObtenerTraduccion(glosario, llamada.token, llamada.func_role) = llamada.tgt
        /\ \A r1 \in FuncRoles \ {llamada.func_role} :
              llamada.antes.entradas[llamada.token].traducciones_por_funcion[r1] # NULL =>
                 ObtenerTraduccion(glosario, llamada.token, r1) =
                    llamada.antes.entradas[llamada.token].traducciones_por_funcion[r1]

\* a particle holds two different targets under two function roles
C14_Testigo ==
    /\ EnAsignarParticula
    /\ llamada.func_role = "COPULA"
    /\ llamada.tgt = "razon"
    /\ llamada.antes.entradas[llamada.token].traducciones_por_funcion["REGIMEN"] = "alma"
    /\ ObtenerTraduccion(glosario, llamada.token, "REGIMEN") = "alma"
    /\ ObtenerTraduccion(glosario, llamada.token, "COPULA") = "razon"

\* the last call was fase_b_asignar(T, tgt) and the last change of the
\* glossary before it was a fase_b_asignar that gave T the same target
EnReasignar ==
    /\ llamada.op = "fase_b_asignar"
    /\ Registrado(llamada.antes, llamada.token)
    /\ llamada.antes.historial # <<>>
    /\ llamada.antes.historial[Len(llamada.antes.historial)] =
          [accion |-> "ASIGNACION", token |-> llamada.token]
    /\ llamada.antes.entradas[llamada.token].token_tgt = llamada.tgt

\* C15: a second fase_b_asignar with the same token and the same target, with
\* any margin or tag, succeeds and leaves the target, status, margin and tag
\* of the entry as the first call left them
C15_Idempotencia ==
    EnReasignar =>
        /\ llamada.error = NULL
        /\ llamada.ret
        /\ glosario.entradas[llamada.token].token_tgt =
              llamada.antes.entradas[llamada.token].token_tgt
        /\ glosario.entradas[llamada.token].status =
              llamada.antes.entradas[llamada.token].status
        /\ glosario.entradas[llamada.token].margen =
              llamada.antes.entradas[llamada.token].margen
        /\ glosario.entradas[llamada.token].etiqueta =
              llamada.antes.entradas[llamada.token].etiqueta

\* ------------------------------------------------------------------------
\* SpecSeal: the completeness gate, through glosario.fase_a_procesar called
\* directly and through SistemaTraduccion.traducir (main.py)
\* ------------------------------------------------------------------------
\* the occurrences one glossary records over all its Phase A calls
MaxOcurr == 3

RECURSIVE Suma(_, _)
\* the sum of f over the set S
Suma(f, S) ==
    IF S = {} THEN 0
    ELSE LET x == CHOOSE x \in S : TRUE IN f[x] + Suma(f, S \ {x})

\* the occurrences recorded in the entries of g
TotalOcurrencias(g) ==
    Suma([t \in DOMAIN g.entradas |-> Len(g.entradas[t].ocurrencias)], DOMAIN g.entradas)

\* the token lists handed to fase_a_procesar, over a nucleus, a particle and
\* a vocalised word
ListasSeal ==
    {<<>>, <<"nafs">>, <<"bi">>, <<"ka~ta">>, <<"nafs", "bi">>, <<"bi", "nafs">>,
     <<"nafs", "nafs">>, <<"nafs", "ka~ta">>}

RECURSIVE UnEspacio(_)
\* re.sub(r' +', ' ', texto) of _a3_normalizar
UnEspacio(texto) ==
    IF Len(texto) < 2 THEN texto
    ELSE IF texto[1] = " " /\ texto[2] = " " THEN UnEspacio(Tail(texto))
    ELSE <<texto[1]>> \o UnEspacio(Tail(texto))

RECURSIVE Strip(_)
\* str.strip() of a line
Strip(texto) ==
    IF texto # <<>> /\ Head(texto) = " " THEN Strip(Tail(texto))
    ELSE IF texto # <<>> /\ texto[Len(texto)] = " "
    THEN Strip(SubSeq(texto, 1, Len(texto) - 1))
    ELSE texto

\* renderizado.limpiar_texto on a one-line text without noise or OCR patterns
LimpiarTexto(texto) == Strip(UnEspacio(texto))

\* the raw texts handed to traducir: the words joined by one space, and one
\* text with a run of spaces
TextosSeal ==
    {TextoDe(ws) : ws \in ListasSeal} \cup {Letras("nafs") \o <<" ", " ">> \o Letras("bi")}

\* Tokenizador.dividir_oraciones on a text without sentence punctuation
DividirOraciones(texto) == IF texto = <<>> THEN <<>> ELSE <<texto>>

\* glosario.fase_a_procesar(texto, tokens_clasificados) called with the
\* tokens of the text, with none, or with one token of its own
SealFaseA ==
    \E ws \in ListasSeal :
    \E ts \in {ws, <<>>, <<"nafs">>} :
    \E r \in {FaseAProcesarOp(glosario, TextoDe(ws), TokensClasificados(TextoDe(ts)),
                              config_locs)} :
        /\ pc = "libre"
        /\ Len(glosario.historial) < MaxHist
        /\ TotalOcurrencias(glosario) + Len(ts) <= MaxOcurr
        /\ glosario' = r.g
        /\ llamada' = [op |-> "fase_a_procesar", texto |-> TextoDe(ws),
                       sellado_antes |-> EstaSellado(glosario), error |-> r.error]
        /\ obs' = [obs EXCEPT !.traducidas = 0]
        /\ UNCHANGED <<comandos, casos, gestor, config_locs, mtx_s, mtx_t, fase_actual, errores, resultado,
                       pc, idx>>

\* SistemaTraduccion.traducir(texto_fuente) up to the end of F1 of its first
\* sentence: P10.A, dividir_oraciones, _fase_analisis_lexico, and, unless
\* that raised, _traducir_oracion
Traducir ==
    \E texto_fuente \in TextosSeal :
    \E texto \in {LimpiarTexto(texto_fuente)} :
    \E r \in {FaseAProcesarOp(glosario, texto, TokensClasificados(texto), config_locs)} :
        /\ pc = "libre"
        /\ Len(glosario.historial) + 1 + Len(Tokenizar(texto)) <= MaxHist
        /\ TotalOcurrencias(glosario) + Len(Tokenizar(texto)) <= MaxOcurr
        /\ glosario' = r.g
        /\ llamada' = [op |-> "traducir", texto |-> texto,
                       sellado_antes |-> EstaSellado(glosario), error |-> r.error]
        /\ IF r.error # NULL \/ DividirOraciones(texto) = <<>>
           THEN /\ obs' = [obs EXCEPT !.traducidas = 0]
                /\ UNCHANGED <<comandos, casos, gestor, mtx_s, mtx_t, fase_actual, errores, resultado, pc, idx>>
           ELSE /\ IniciarCon(r.g, DividirOraciones(texto)[1])
                /\ obs' = [ObsFases(ObsOracion(obs), fase_actual') EXCEPT !.traducidas = 1]
        /\ UNCHANGED <<comandos, casos, gestor, config_locs>>

NextSeal ==
    \/ SealFaseA
    \/ Traducir
    \/ F2Paso
    \/ F3Mapeo
    \/ F4Paso
    \/ Finalizar

SpecSeal == Init /\ [][NextSeal]_vars

\* the last call ran Phase A (sealing) on llamada.texto
EnSellado == llamada.op \in {"fase_a_procesar", "traducir"}

\* C6 as stated: sealing against a text with a token that is neither a
\* registered entry nor a locution component raises RegistroIncompletoError,
\* esta_sellado() is false afterwards and traducir translates no sentence
C6_FalloSellado ==
    (EnSellado /\ ~(TokensTexto(llamada.texto) \subseteq TokensRegistrados(glosario))) =>
        /\ llamada.error = "RegistroIncompletoError"
        /\ ~EstaSellado(glosario)
        /\ obs.traducidas = 0
        /\ pc = "libre"

\* C6 amended: such a sealing raises RegistroIncompletoError, leaves the
\* sealed flag as it was before the call (false unless an earlier sealing
\* succeeded) and traducir translates no sentence
C6_FalloSelladoEnmendado ==
    (EnSellado /\ ~(TokensTexto(llamada.texto) \subseteq TokensRegistrados(glosario))) =>
        /\ llamada.error = "RegistroIncompletoError"
        /\ EstaSellado(glosario) = llamada.sellado_antes
        /\ obs.traducidas = 0
        /\ pc = "libre"

\* traducir raised on a vocalised text against a glossary never sealed
C6_Testigo ==
    /\ llamada.op = "traducir"
    /\ llamada.error = "RegistroIncompletoError"
    /\ ~EstaSellado(glosario)
    /\ glosario.entradas # <<>>

\* C7 as stated: sealing succeeds if and only if the token set of the text
\* equals the registered set (entries plus locution components)
C7_SelladoIgualdad ==
    EnSellado =>
        ((llamada.error = NULL) <=> (TokensTexto(llamada.texto) = TokensRegistrados(glosario)))

\* C7 amended: sealing succeeds, and seals the glossary, if and only if every
\* token of the text is registered; registered tokens that the text lacks do
\* not prevent it
C7_SelladoInclusion ==
    EnSellado =>
        /\ (llamada.error = NULL)
              <=> (TokensTexto(llamada.texto) \subseteq TokensRegistrados(glosario))
        /\ llamada.error = NULL => EstaSellado(glosario)

\* a sealing succeeded although the registry holds a token the text lacks
C7_Testigo ==
    /\ EnSellado
    /\ llamada.error = NULL
    /\ Sobrantes(glosario, llamada.texto) # {}

\* ------------------------------------------------------------------------
\* SpecPart: ProcesadorParticulas.procesar over an injected BaseParticulas
\* (particulas.py)
\* ------------------------------------------------------------------------
\* most entries the base holds for one token and function role
MaxCand == 3

\* the entries <<termino, es_etimologico, cierra_regimen>> of a base
EntradasBase == {"por", "con", "en"} \X BOOLEAN \X BOOLEAN

\* the data the base holds for the particle and its role
DatosFuente == SeqsHasta(EntradasBase, MaxCand)

\* the target of the nucleus next to the particle: none yet, one without a
\* known regime, one that governs "en" and "sobre"
NucleosVecinos == {NULL, "alma", "pensar"}

\* procesar on an unblocked particle slot: _f3_analisis_relacional finds the
\* requisite of the neighbouring nucleus, _f4_generar_conjuntos builds the two
\* sets from the base and filters them, _f5_construir_lista merges them
PartProcesar ==
    /\ llamada.op # "particulas.procesar"
    /\ \E datos \in DatosFuente, nucleo \in NucleosVecinos :
       \E requisito \in {IF Truthy(nucleo) THEN ObtenerRegimenNucleo(nucleo) ELSE {}} :
          llamada' = [op |-> "particulas.procesar", datos |-> datos,
                      requisito |-> requisito,
                      candidatos |->
                         F5ConstruirLista(
                            FiltrarRequisito(BuscarEtimologicos(datos), requisito),
                            FiltrarRequisito(BuscarFuncionales(datos), requisito))]
    /\ UNCHANGED <<comandos, casos, gestor, glosario, config_locs, mtx_s, mtx_t, fase_actual, errores,
                   resultado, pc, idx, obs>>

NextPart == PartProcesar

SpecPart == Init /\ [][NextPart]_vars

\* procesar returned a candidate list
EnParticulas == llamada.op = "particulas.procesar"

\* the surface forms of SET A: etymological, closing the regime, within the requisite
FormasA ==
    {llamada.datos[k][1] : k \in {j \in DOMAIN llamada.datos :
        /\ llamada.datos[j][2] /\ llamada.datos[j][3]
        /\ (llamada.requisito = {} \/ llamada.datos[j][1] \in llamada.requisito)}}

\* the surface forms of SET B: closing the regime, within the requisite
FormasB ==
    {llamada.datos[k][1] : k \in {j \in DOMAIN llamada.datos :
        /\ llamada.datos[j][3]
        /\ (llamada.requisito = {} \/ llamada.datos[j][1] \in llamada.requisito)}}

\* every SET A form stands before every form that is only in SET B, and no
\* form stands twice
OrdenAB ==
    /\ \A i, j \in DOMAIN llamada.candidatos :
          (llamada.candidatos[i] \in FormasA /\ llamada.candidatos[j] \notin FormasA)
             => i < j
    /\ \A i, j \in DOMAIN llamada.candidatos :
          llamada.candidatos[i] = llamada.candidatos[j] => i = j

\* C16 as stated: SET A before SET B only, no surface form twice, the list
\* holds exactly the candidates the source returned, and the source data
\* [(por, etymological), (con, functional)] gives exactly [por, con]
C16_OrdenCandidatos ==
    EnParticulas =>
        /\ OrdenAB
        /\ Rango(llamada.candidatos) = {llamada.datos[k][1] : k \in DOMAIN llamada.datos}
        /\ llamada.datos = <<<<"por", TRUE, TRUE>>, <<"con", FALSE, TRUE>>>>
              => llamada.candidatos = <<"por", "con">>

\* C16 amended: SET A before SET B only, no surface form twice, the list holds
\* exactly the candidates of the source that close the regime and, when the
\* neighbouring nucleus has a requisite, belong to it; without a requisite
\* the source data [(por, etymological), (con, functional)] gives [por, con]
C16_OrdenCandidatosEnmendado ==
    EnParticulas =>
        /\ OrdenAB
        /\ Rango(llamada.candidatos) = FormasB
        /\ (llamada.datos = <<<<"por", TRUE, TRUE>>, <<"con", FALSE, TRUE>>>>
              /\ llamada.requisito = {})
              => llamada.candidatos = <<"por", "con">>

\* a functional entry listed before an etymological one, and a form listed
\* twice in the base, came out etymological first and once each
C16_Testigo ==
    /\ EnParticulas
    /\ llamada.datos = <<<<"con", FALSE, TRUE>>, <<"por", TRUE, TRUE>>, <<"por", FALSE, TRUE>>>>
    /\ llamada.requisito = {}
    /\ llamada.candidatos = <<"por", "con">>

\* ------------------------------------------------------------------------
\* SpecNoRoot: ProcesadorCasosDificiles._estrategia_no_root on a nucleus slot
\* of any spelling and category (casos_dificiles.py)
\* ------------------------------------------------------------------------
\* longest token handed to the strategy, in characters
MaxTok == 3

\* the spellings: a consonant, a vowel and a vocalisation mark
Grafias == SeqsHasta({"z", "a", "~"}, MaxTok)

\* CategoriaGramatical of the slot: the four nucleus categories and one other
Categorias == {"SUSTANTIVO", "ADJETIVO", "VERBO", "ADVERBIO", "PREPOSICION"}

\* _estrategia_no_root(slot_n)
NoRootAplicar ==
    /\ llamada.op # "_estrategia_no_root"
    /\ \E chars \in Grafias, cat_src \in Categorias :
          llamada' = [op |-> "_estrategia_no_root", token |-> chars, cat_src |-> cat_src,
                      n_base |-> NeologismoRadical(chars, cat_src)]
    /\ UNCHANGED <<comandos, casos, gestor, glosario, config_locs, mtx_s, mtx_t, fase_actual, errores,
                   resultado, pc, idx, obs>>

NextNoRoot == NoRootAplicar

SpecNoRoot == Init /\ [][NextNoRoot]_vars

\* the default suffix the strategy is specified to use, per category
SufijoEspecificado(cat_src) ==
    CASE cat_src = "SUSTANTIVO" -> <<"i", "d", "a", "d">>
      [] cat_src = "ADJETIVO" -> <<"a", "d", "o">>
      [] cat_src = "VERBO" -> <<"a", "r">>
      [] cat_src = "ADVERBIO" -> <<"m", "e", "n", "t", "e">>

\* C17: the NoRoot target is the transliteration of the token followed by the
\* default suffix of its category: -idad for nouns, -ado for adjectives, -ar
\* for verbs, -mente for adverbs
C17_NoRoot ==
    (llamada.op = "_estrategia_no_root"
       /\ llamada.cat_src \in {"SUSTANTIVO", "ADJETIVO", "VERBO", "ADVERBIO"})
      => llamada.n_base = Transliterar(llamada.token) \o SufijoEspecificado(llamada.cat_src)

\* ------------------------------------------------------------------------
\* The Idiom strategy on its own.  SpecIdiom starts from a configuration
\* whose one predefined locution has up to MaxComp components, registers the
\* locution's words, lets the user confirm a locution with or without a
\* translation dictionary, and calls procesar with Reason.IDIOM on any word.
\* ------------------------------------------------------------------------
\* most components of a locution
MaxComp == 3

TokensIdiom == {"bi", "nafs", "ka~ta"}

\* the predefined patterns: their words, in order
PatronesIdiom == SeqsHasta(TokensIdiom, MaxComp)

\* the dictionaries the user passes to confirmar_locucion
DiccionariosEtym == {<<>>, [c \in {"bi"} |-> "con"]}

\* the locutions the user confirms
FrasesConfirmadas == {<<"bi", "nafs">>, <<"ka~ta", "bi">>}

InitIdiom ==
    /\ glosario = GlosarioVacio
    /\ gestor = GestorNuevo
    /\ casos = CasosNuevo
    /\ comandos = ComandosNuevo
    /\ config_locs \in {<<TextoDe(p)>> : p \in PatronesIdiom}
    /\ mtx_s = [celdas |-> <<>>, locuciones |-> <<>>]
    /\ mtx_t = NuevaMatrizTarget(0)
    /\ fase_actual = "INICIO"
    /\ errores = <<>>
    /\ resultado = SinResultado
    /\ pc = "libre"
    /\ idx = 0
    /\ llamada = SinLlamada
    /\ obs = ObsInicial

\* glosario.fase_a_procesar on the text of the predefined locution
IdiomFaseA ==
    \E r \in {FaseAProcesarOp(glosario, config_locs[1],
                              TokensClasificados(config_locs[1]), config_locs)} :
        /\ glosario.entradas = <<>>
        /\ glosario' = r.g
        /\ llamada' = [op |-> "fase_a_procesar", error |-> r.error]
        /\ UNCHANGED <<comandos, casos, gestor, config_locs, mtx_s, mtx_t, fase_actual, errores, resultado,
                       pc, idx, obs>>

\* glosario.confirmar_locucion(src, True, traduccion_etym)
IdiomConfirmar ==
    \E frase \in FrasesConfirmadas, dicc \in DiccionariosEtym :
        /\ Len(glosario.locuciones) < 2
        /\ glosario' = ConfirmarLocucion(glosario, TextoDe(frase), TRUE, dicc)
        /\ llamada' = [op |-> "confirmar_locucion", error |-> NULL]
        /\ UNCHANGED <<comandos, casos, gestor, config_locs, mtx_s, mtx_t, fase_actual, errores, resultado,
                       pc, idx, obs>>

\* ProcesadorCasosDificiles.procesar(slot_n, Reason.IDIOM, glosario);
\* anterior is what the call before returned when it was for the same word
\* and found a locution
IdiomProcesar ==
    \E token \in TokensIdiom :
    \E e \in {ProcesarCasoDificil(glosario, NuevoSlot(token, 0), "IDIOM", <<>>)} :
        /\ Len(glosario.historial) < MaxHist
        /\ glosario' = e.g
        /\ llamada' = [op |-> "idiom", token |-> token, antes |-> glosario,
                       n_base |-> e.n_base, error |-> e.error,
                       anterior |-> IF /\ llamada.op = "idiom"
                                       /\ llamada.token = token
                                       /\ LocucionDuena(llamada.antes, token) # 0
                                    THEN llamada.n_base ELSE NULL]
        /\ UNCHANGED <<comandos, casos, gestor, config_locs, mtx_s, mtx_t, fase_actual, errores, resultado,
                       pc, idx, obs>>

NextIdiom ==
    \/ IdiomFaseA
    \/ IdiomConfirmar
    \/ IdiomProcesar

SpecIdiom == InitIdiom /\ [][NextIdiom]_vars

\* the Idiom strategy ran on a word that a locution of the glossary holds
EnIdiom == llamada.op = "idiom" /\ LocucionDuena(llamada.antes, llamada.token) # 0

\* the locution the strategy found, as it was before the call
LocucionAntes == llamada.antes.locuciones[LocucionDuena(llamada.antes, llamada.token)]

\* the etymological translations of the components, in order, joined by hyphens
UnionEtimologica(componentes) ==
    UnirCon("-", [i \in DOMAIN componentes |->
                     IF componentes[i] = "bi" THEN "por"
                     ELSE IF componentes[i] = "nafs" THEN "alma"
                     ELSE Unir(Transliterar(Letras(componentes[i])))])

\* C18: the Idiom strategy returns the owning locution's cached translation
\* unchanged when it has one; otherwise it returns the hyphen-join, in
\* component order and for any number of components, of each component's
\* etymological translation (its transliteration when the table has none)
\* and caches that string on the locution, so that a second invocation
\* returns the same string
C18_Idiom ==
    EnIdiom =>
        /\ IF Truthy(LocucionAntes.tgt)
           THEN /\ llamada.n_base = LocucionAntes.tgt
                /\ glosario.locuciones = llamada.antes.locuciones
           ELSE llamada.n_base = UnionEtimologica(LocucionAntes.componentes)
        /\ glosario.locuciones[LocucionDuena(llamada.antes, llamada.token)].tgt
              = llamada.n_base
        /\ llamada.anterior # NULL => llamada.n_base = llamada.anterior

\* a second invocation on a word of a three-component locution, one of them
\* outside the table, returns the string the first one generated and cached
C18_Testigo ==
    /\ EnIdiom
    /\ LocucionAntes.componentes = <<"bi", "ka~ta", "nafs">>
    /\ llamada.anterior = "por-kaata-alma"
    /\ llamada.n_base = "por-kaata-alma"
    /\ LocucionAntes.tgt = "por-kaata-alma"

\* ------------------------------------------------------------------------
\* The candidate source (ai_client.py).  llamada holds the call of
\* _generar_con_retry in progress: the loop index i, the generate_content
\* calls made so far with their outcomes (traza), the waits slept (esperas),
\* and how the call ended: "devuelto" with ret, or "propagado" when an
\* exception leaves the method.
\* ------------------------------------------------------------------------
\* largest intentos_max a caller passes; consultar_nucleo and
\* consultar_particula pass none and get the default
MaxIntentos == 5

\* the default of the parameter intentos_max
IntentosPorDefecto == 5

\* response.text as generate_content delivers it
TextosRespuesta == {"[]", "[{\"termino\": \"alma\"}]", "alma"}

\* json.loads: the value, or the JSONDecodeError it raises
JsonLoads(texto) ==
    CASE texto = "[]" -> [error |-> NULL, valor |-> <<>>]
      [] texto = "[{\"termino\": \"alma\"}]" -> [error |-> NULL, valor |-> <<[termino |-> "alma"]>>]
      [] OTHER -> [error |-> "JSONDecodeError", valor |-> NULL]

\* what self.model.generate_content(prompt) does: a response with a text,
\* the quota error 429, or another exception
ResultadosIA ==
    {[tipo |-> "respuesta", texto |-> t] : t \in TextosRespuesta}
        \cup {[tipo |-> "ResourceExhausted", texto |-> NULL],
              [tipo |-> "ServiceUnavailable", texto |-> NULL]}

\* the exception the body of the try raises, NULL when it returns
ExcepcionDe(salida) ==
    IF salida.tipo = "respuesta" THEN JsonLoads(salida.texto).error
    ELSE salida.tipo

\* 2 ** i
RECURSIVE DosALa(_)
DosALa(i) == IF i <= 0 THEN 1 ELSE 2 * DosALa(i - 1)

\* the call as _generar_con_retry enters it
EntrarGenerarConRetry(prompt, modelo, intentos_max) ==
    [op |-> "generar_con_retry", prompt |-> prompt, modelo |-> modelo,
     intentos_max |-> intentos_max, i |-> 0, traza |-> <<>>, esperas |-> <<>>,
     estado |-> IF modelo /\ intentos_max > 0 THEN "bucle" ELSE "devuelto",
     ret |-> <<>>]

\* an iteration of the loop that lets every exception but the quota error
\* leave the method
IteracionSinCaptura(c, salida, azar) ==
    LET hecho == [c EXCEPT !.traza = Append(@, ExcepcionDe(salida))]
    IN IF ExcepcionDe(salida) = NULL
       THEN [hecho EXCEPT !.estado = "devuelto",
                          !.ret = JsonLoads(salida.texto).valor]
       ELSE IF ExcepcionDe(salida) = "ResourceExhausted"
       THEN [hecho EXCEPT !.esperas = Append(@, 5 + DosALa(c.i) + azar),
                          !.i = c.i + 1,
                          !.estado = IF c.i + 1 < c.intentos_max THEN "bucle"
                                     ELSE "devuelto",
                          !.ret = <<>>]
       ELSE [hecho EXCEPT !.estado = "propagado"]

\* one iteration of the loop of _generar_con_retry on the outcome of
\* generate_content; azar is the whole part of random.uniform(0, 2).  The
\* iteration that uses up range(intentos_max) falls through to the final
\* return []
Iteracion(c, salida, azar) ==
    LET hecho == [c EXCEPT !.traza = Append(@, ExcepcionDe(salida))]
    IN IF ExcepcionDe(salida) = NULL
       THEN [hecho EXCEPT !.estado = "devuelto",
                          !.ret = JsonLoads(salida.texto).valor]
       ELSE IF ExcepcionDe(salida) = "ResourceExhausted"
       THEN [hecho EXCEPT !.esperas = Append(@, 5 + DosALa(c.i) + azar),
                          !.i = c.i + 1,
                          !.estado = IF c.i + 1 < c.intentos_max THEN "bucle"
                                     ELSE "devuelto",
                          !.ret = <<>>]
       ELSE [hecho EXCEPT !.estado = "devuelto", !.ret = <<>>]

\* consultar_nucleo, consultar_particula (the default intentos_max) or a
\* direct call of _generar_con_retry, on a client with or without a model
RetryLlamar ==
    \E prompt \in {"P4", "P5"}, modelo \in BOOLEAN, intentos_max \in 0..MaxIntentos :
        /\ llamada.op = "generar_con_retry" => llamada.estado = "devuelto"
        /\ llamada' = EntrarGenerarConRetry(prompt, modelo, intentos_max)
        /\ UNCHANGED <<comandos, casos, gestor, glosario, config_locs, mtx_s, mtx_t, fase_actual, errores,
                       resultado, pc, idx, obs>>

\* the next generate_content of the call in progress
RetryIntento ==
    \E res \in ResultadosIA, azar \in 0..2 :
        /\ llamada.op = "generar_con_retry"
        /\ llamada.estado = "bucle"
        /\ llamada' = Iteracion(llamada, res, azar)
        /\ UNCHANGED <<comandos, casos, gestor, glosario, config_locs, mtx_s, mtx_t, fase_actual, errores,
                       resultado, pc, idx, obs>>

NextRetry ==
    \/ RetryLlamar
    \/ RetryIntento

SpecRetry == Init /\ [][NextRetry]_vars

\* a call of _generar_con_retry is in progress or has ended
EnRetry == llamada.op = "generar_con_retry"

\* the call ended without a parsed response: no model, an exception, or the
\* attempts used up
RetryFallido ==
    /\ EnRetry
    /\ llamada.estado # "bucle"
    /\ \/ ~llamada.modelo
       \/ llamada.traza = <<>>
       \/ llamada.traza[Len(llamada.traza)] # NULL

\* C19: _generar_con_retry makes at most intentos_max attempts, makes a
\* further attempt only after a quota error, never lets an exception reach
\* its caller, and returns the empty list whenever it fails (no model, any
\* exception, attempts used up)
C19_DegradaAVacio ==
    EnRetry =>
        /\ Len(llamada.traza) <= llamada.intentos_max
        /\ \A k \in 1..(Len(llamada.traza) - 1) : llamada.traza[k] = "ResourceExhausted"
        /\ llamada.estado = "bucle" =>
              \A k \in DOMAIN llamada.traza : llamada.traza[k] = "ResourceExhausted"
        /\ llamada.estado # "propagado"
        /\ RetryFallido => llamada.estado = "devuelto" /\ llamada.ret = <<>>

\* the default five attempts all met the quota error and the call returned []
C19_Testigo ==
    /\ EnRetry
    /\ llamada.modelo
    /\ llamada.intentos_max = IntentosPorDefecto
    /\ llamada.traza = [k \in 1..IntentosPorDefecto |-> "ResourceExhausted"]
    /\ llamada.estado = "devuelto"
    /\ llamada.ret = <<>>

\* a call ended on an exception that is not the quota error, after a retry
C19_TestigoExcepcion ==
    /\ RetryFallido
    /\ Len(llamada.traza) = 2
    /\ llamada.traza[2] \in {"ServiceUnavailable", "JSONDecodeError"}

\* ------------------------------------------------------------------------
\* The consultation manager on its own.  SpecGestor creates up to
\* MaxConsultas consultations between two limpiar_todo and calls the
\* operations of GestorConsultas that write its state; llamada holds the
\* manager as the call found it.
\* ------------------------------------------------------------------------
\* most consultations numbered since the last limpiar_todo
MaxConsultas == 3

\* the consultations the resolvers create: codigo, opciones, recomendacion
ConsultasCreadas ==
    {<<"C2_COLLISION_DUDA", <<<<"alma", "ETYM">>, <<"espiritu", "">>>>, "A">>,
     <<"C2_COLLISION_DUDA", <<<<"alma", "ETYM">>, <<"espiritu", "">>>>, "B">>,
     <<"C3_POSIBLE_LOCUCION", <<<<"si", "unidad">>, <<"no", "">>>>, "A">>}

\* the RespuestaUsuario objects handed to procesar_respuesta
RespuestasUsuario ==
    {[decisiones |-> d, usar_recomendaciones |-> u] :
        d \in {<<>>, 1 :> "B", 2 :> "A", (1 :> "A") @@ (3 :> "B")}, u \in BOOLEAN}

GestorCrear ==
    \E c \in ConsultasCreadas :
        /\ gestor.contador < MaxConsultas
        /\ gestor' = CrearConsulta(gestor, c[1], "contexto", "nafs", c[2], c[3])
        /\ llamada' = [op |-> "crear_consulta", antes |-> gestor, ret |-> gestor.contador + 1]
        /\ UNCHANGED <<comandos, casos, glosario, config_locs, mtx_s, mtx_t, fase_actual, errores,
                       resultado, pc, idx, obs>>

GestorProcesarRespuesta ==
    \E respuesta \in RespuestasUsuario :
    \E r \in {ProcesarRespuesta(gestor, respuesta)} :
        /\ gestor' = r.gs
        /\ llamada' = [op |-> "procesar_respuesta", antes |-> gestor, ret |-> r.ret]
        /\ UNCHANGED <<comandos, casos, glosario, config_locs, mtx_s, mtx_t, fase_actual, errores,
                       resultado, pc, idx, obs>>

GestorAplicarRecomendaciones ==
    \E r \in {AplicarRecomendacionesPendientes(gestor)} :
        /\ gestor' = r.gs
        /\ llamada' = [op |-> "aplicar_recomendaciones_pendientes", antes |-> gestor,
                       ret |-> r.ret]
        /\ UNCHANGED <<comandos, casos, glosario, config_locs, mtx_s, mtx_t, fase_actual, errores,
                       resultado, pc, idx, obs>>

GestorSetAutoDecidir ==
    \E valor \in BOOLEAN :
        /\ gestor' = SetAutoDecidir(gestor, valor)
        /\ llamada' = [op |-> "set_auto_decidir", antes |-> gestor, ret |-> NULL]
        /\ UNCHANGED <<comandos, casos, glosario, config_locs, mtx_s, mtx_t, fase_actual, errores,
                       resultado, pc, idx, obs>>

GestorLimpiarConsultas ==
    /\ gestor' = LimpiarConsultas(gestor)
    /\ llamada' = [op |-> "limpiar_consultas", antes |-> gestor, ret |-> NULL]
    /\ UNCHANGED <<comandos, casos, glosario, config_locs, mtx_s, mtx_t, fase_actual, errores,
                   resultado, pc, idx, obs>>

GestorLimpiarTodo ==
    /\ gestor' = LimpiarTodo(gestor)
    /\ llamada' = [op |-> "limpiar_todo", antes |-> gestor, ret |-> NULL]
    /\ UNCHANGED <<comandos, casos, glosario, config_locs, mtx_s, mtx_t, fase_actual, errores,
                   resultado, pc, idx, obs>>

NextGestor ==
    \/ GestorCrear
    \/ GestorProcesarRespuesta
    \/ GestorAplicarRecomendaciones
    \/ GestorSetAutoDecidir
    \/ GestorLimpiarConsultas
    \/ GestorLimpiarTodo

SpecGestor == Init /\ [][NextGestor]_vars

\* the last step was an operation of the manager
EnGestor ==
    llamada.op \in {"crear_consulta", "procesar_respuesta",
                    "aplicar_recomendaciones_pendientes", "set_auto_decidir",
                    "limpiar_consultas", "limpiar_todo"}

\* the last step was one of the two resolving operations
EnResolucion ==
    llamada.op \in {"procesar_respuesta", "aplicar_recomendaciones_pendientes"}

\* the consultations the last operation resolved, by index: pending before,
\* no longer pending
Resueltas ==
    {k \in DOMAIN llamada.antes.consultas :
        /\ llamada.antes.consultas[k].estado = "PENDIENTE"
        /\ k \in DOMAIN gestor.consultas
        /\ gestor.consultas[k].estado # "PENDIENTE"}

\* the decisions the last operation appended
DecisionesNuevas ==
    SubSeq(gestor.decisiones, Len(llamada.antes.decisiones) + 1, Len(gestor.decisiones))

\* the history the call found is still there, unaltered, at the front of the history
HistorialConservado ==
    /\ Len(llamada.antes.decisiones) <= Len(gestor.decisiones)
    /\ SubSeq(gestor.decisiones, 1, Len(llamada.antes.decisiones)) = llamada.antes.decisiones

\* each resolution appended exactly one Decision, in order, with the origin
\* tag of the operation
UnaDecisionPorResolucion ==
    EnResolucion =>
        /\ Len(DecisionesNuevas) = Cardinality(Resueltas)
        /\ \A j \in DOMAIN DecisionesNuevas :
              \E k \in Resueltas :
                 /\ Cardinality({i \in Resueltas : i <= k}) = j
                 /\ DecisionesNuevas[j].consulta_codigo = gestor.consultas[k].consulta.codigo
                 /\ DecisionesNuevas[j].decision = gestor.consultas[k].respuesta
                 /\ DecisionesNuevas[j].origen =
                       (IF llamada.op = "procesar_respuesta" THEN "USUARIO"
                        ELSE "AUTOMATICA")

\* C20: the decision history is append-only: every resolution of a
\* consultation, by procesar_respuesta or aplicar_recomendaciones_pendientes,
\* appends exactly one Decision with its origin tag (USUARIO or AUTOMATICA),
\* and no operation of GestorConsultas removes or alters a recorded Decision
C20_HistorialSoloCrece ==
    EnGestor => UnaDecisionPorResolucion /\ HistorialConservado

\* the same for every operation but limpiar_todo
HistorialSoloCreceSalvoLimpiarTodo ==
    (EnGestor /\ llamada.op # "limpiar_todo") =>
        UnaDecisionPorResolucion /\ HistorialConservado

\* limpiar_todo ran on a manager that held decisions
TrasLimpiarTodo ==
    /\ llamada.op = "limpiar_todo"
    /\ llamada.antes.decisiones # <<>>
    /\ gestor.decisiones = <<>>

\* ------------------------------------------------------------------------
\* SpecSeleccion: ProcesadorNucleos.procesar over any etymological base,
\* and ProcesadorCasosDificiles.procesar called with Reason.COLLISION
\* (nucleos.py, casos_dificiles.py)
\* ------------------------------------------------------------------------
\* most roots the base holds for a token
MaxRaices == 2

\* the entries of BaseEtimologica._raices with the viability
\* _metaforas_viables gives them: an origin in the hierarchy and one outside
\* it, with and without an existing derivation
CandidatosBase ==
    {Candidato(t, o, "anim-", d, mv) :
        t \in {"alma", "psique"}, o \in {"LATINA", "XX"}, d \in BOOLEAN, mv \in BOOLEAN}

BasesRaices == SeqsHasta(CandidatosBase, MaxRaices)

\* no consultation
SinConsulta == [numero |-> 0, opciones |-> <<>>, recomendacion |-> NULL]

\* _crear_consulta_collision
CrearConsultaCollision(slot, candidatos, pendientes) ==
    [numero |-> Len(pendientes) + 1,
     opciones |-> [i \in 1..(IF Len(candidatos) < 5 THEN Len(candidatos) ELSE 5) |->
                      [letra |-> Letra(i - 1), texto |-> candidatos[i].termino]],
     recomendacion |-> "A"]

\* proc_nucleos.procesar(slot_n, glosario) on a nucleus of a sealed glossary,
\* after the analysis or after an override by the user
SelProcesar ==
    /\ llamada.op \in {"fase_a_procesar", "actualizar_entrada"}
    /\ EstaSellado(glosario)
    /\ Len(glosario.historial) < MaxHist
    /\ \E token \in {t \in Tokens : Registrado(glosario, t) /\ Clasificar(t)[1] = "NUCLEO"} :
       \E raices \in BasesRaices :
       \E r \in {ProcesarNucleoCon(glosario, NuevoSlot(token, 0), raices)} :
          /\ glosario' = r.g
          /\ llamada' = [op |-> "procesar", token |-> token,
                         candidatos |-> OrdenarPorPrioridad(raices),
                         antes |-> glosario, res |-> r.res,
                         requiere_consulta |-> FALSE, consulta |-> SinConsulta]
    /\ UNCHANGED <<comandos, casos, gestor, config_locs, mtx_s, mtx_t, fase_actual, errores, resultado,
                   pc, idx, obs>>

\* proc_casos_dificiles.procesar(slot_n, Reason.COLLISION, glosario, candidatos)
SelCollision ==
    /\ llamada.op \in {"fase_a_procesar", "actualizar_entrada"}
    /\ EstaSellado(glosario)
    /\ Len(glosario.historial) < MaxHist
    /\ \E token \in {t \in Tokens : Registrado(glosario, t) /\ Clasificar(t)[1] = "NUCLEO"} :
       \E raices \in BasesRaices :
       \E e \in {EstrategiaCollision(glosario, NuevoSlot(token, 0),
                                     OrdenarPorPrioridad(raices))} :
       \E r \in {ProcesarCasoDificil(glosario, NuevoSlot(token, 0), "COLLISION",
                                     OrdenarPorPrioridad(raices))} :
          /\ glosario' = r.g
          /\ llamada' = [op |-> "casos.procesar", token |-> token,
                         candidatos |-> OrdenarPorPrioridad(raices),
                         antes |-> glosario,
                         res |-> [exito |-> r.error = NULL, token_tgt |-> r.n_base,
                                  bloqueado |-> FALSE, restart |-> FALSE,
                                  reason |-> e.reason],
                         requiere_consulta |-> e.requiere_consulta,
                         consulta |-> IF e.requiere_consulta
                                      THEN CrearConsultaCollision(
                                               NuevoSlot(token, 0),
                                               OrdenarPorPrioridad(raices),
                                               casos.consultas_pendientes)
                                      ELSE SinConsulta]
    /\ UNCHANGED <<comandos, casos, gestor, config_locs, mtx_s, mtx_t, fase_actual, errores, resultado,
                   pc, idx, obs>>

\* the user overrides one entry before the resolvers are called
SelActualizar ==
    /\ llamada.op = "fase_a_procesar"
    /\ ActualizarEntrada

NextSeleccion ==
    \/ FaseAProcesar
    \/ SelActualizar
    \/ SelProcesar
    \/ SelCollision

SpecSeleccion == Init /\ [][NextSeleccion]_vars

\* the resolver was called on a nucleus that was not locked and had no
\* target yet, so that it went through the selection
EnSeleccion ==
    /\ llamada.op = "procesar"
    /\ ~llamada.res.bloqueado
    /\ ~Truthy(llamada.antes.entradas[llamada.token].token_tgt)

\* index of the first metaphor-viable candidate, 0 when there is none
PrimeraMetafora(candidatos) ==
    LET ms == {i \in DOMAIN candidatos : candidatos[i].es_metafora_viable}
    IN IF ms = {} THEN 0 ELSE CHOOSE i \in ms : \A j \in ms : i <= j

\* C28: with no candidates the resolver delegates with NO_ROOT; with exactly
\* one candidate it delegates with GAP_DERIVATION when the derivation does
\* not exist and accepts the candidate otherwise; with several it accepts
\* the top-ranked one when that is metaphor-viable and otherwise delegates
\* with COLLISION and the whole list (a viable candidate further down the
\* list is the one the Collision strategy returns)
C28_Seleccion ==
    EnSeleccion =>
       LET c == llamada.candidatos
           res == llamada.res
       IN /\ Len(c) = 0 => res.reason = "NO_ROOT"
          /\ (Len(c) = 1 /\ ~c[1].derivacion_existe) => res.reason = "GAP_DERIVATION"
          /\ (Len(c) = 1 /\ c[1].derivacion_existe)
                => res.reason = NULL /\ res.token_tgt = c[1].termino
          /\ (Len(c) > 1 /\ c[1].es_metafora_viable)
                => res.reason = NULL /\ res.token_tgt = c[1].termino
          /\ (Len(c) > 1 /\ ~c[1].es_metafora_viable)
                => /\ res.reason = "COLLISION"
                   /\ PrimeraMetafora(c) # 0 => res.token_tgt = c[PrimeraMetafora(c)].termino

\* the resolver delegated two candidates with COLLISION, and the strategy
\* returned the second, the metaphor-viable one
C28_Testigo ==
    /\ EnSeleccion
    /\ Len(llamada.candidatos) = 2
    /\ ~llamada.candidatos[1].es_metafora_viable
    /\ llamada.candidatos[2].es_metafora_viable
    /\ llamada.candidatos[2].termino # llamada.candidatos[1].termino
    /\ llamada.res.reason = "COLLISION"
    /\ llamada.res.token_tgt = llamada.candidatos[2].termino

\* the resolver delegated a single candidate without derivation
C28_TestigoGap ==
    /\ EnSeleccion
    /\ Len(llamada.candidatos) = 1
    /\ llamada.res.reason = "GAP_DERIVATION"

\* the resolver accepted the top-ranked, metaphor-viable candidate of two
C28_TestigoDirecto ==
    /\ EnSeleccion
    /\ Len(llamada.candidatos) = 2
    /\ llamada.candidatos[1].es_metafora_viable
    /\ llamada.res.reason = NULL
    /\ llamada.res.token_tgt = llamada.candidatos[1].termino

\* the surface form the GapDerivation strategy builds from a candidate: its
\* Spanish root joined with the participial suffix of the category
FormaDerivada(candidato, cat_src) ==
    Unir(AplicarSufijo(Letras(candidato.raiz), ObtenerSufijo(cat_src, "participial")))

\* C29: when the resolver delegates a single candidate whose derivation does
\* not exist, the target is the candidate's Spanish root joined with the
\* participial suffix of the token's category, and the NoRoot neologism only
\* when that form is a word of the closed list
C29_GapDerivation ==
    (EnSeleccion /\ Len(llamada.candidatos) = 1
                 /\ ~llamada.candidatos[1].derivacion_existe)
      => LET slot == NuevoSlot(llamada.token, 0)
             forma == FormaDerivada(llamada.candidatos[1], slot.cat_src)
         IN llamada.res.token_tgt = IF PalabraExiste(forma)
                                    THEN EstrategiaNoRoot(slot).n_base
                                    ELSE forma

\* the resolver delegated a single candidate with GAP_DERIVATION and the
\* target is the NoRoot neologism of the token, although the derived form
\* is no word of the closed list
C29_SinCandidato ==
    /\ EnSeleccion
    /\ Len(llamada.candidatos) = 1
    /\ llamada.res.reason = "GAP_DERIVATION"
    /\ ~PalabraExiste(FormaDerivada(llamada.candidatos[1],
                                    NuevoSlot(llamada.token, 0).cat_src))
    /\ llamada.res.token_tgt = EstrategiaNoRoot(NuevoSlot(llamada.token, 0)).n_base

\* several candidates, none metaphor-viable, and no score above the
\* clear-winner threshold
Ambiguo(candidatos) ==
    /\ Len(candidatos) > 1
    /\ PrimeraMetafora(candidatos) = 0
    /\ \A i \in DOMAIN candidatos : Puntaje(candidatos[i]) <= 3

\* the Collision strategy was reached, through the resolver or directly,
\* for a nucleus without a target and with an ambiguous candidate list
EnColisionAmbigua ==
    /\ llamada.op \in {"procesar", "casos.procesar"}
    /\ ~llamada.res.bloqueado
    /\ ~Truthy(llamada.antes.entradas[llamada.token].token_tgt)
    /\ Ambiguo(llamada.candidatos)

\* C30: an ambiguous collision raises a consultation with at most 5 lettered
\* options and a recommended default, the consultation is held as pending,
\* and the token's glossary entry stays unassigned
C30_Suspension ==
    EnColisionAmbigua =>
       /\ glosario.entradas[llamada.token].status # "ASIGNADO"
       /\ casos.consultas_pendientes # <<>>
       /\ llamada.op = "casos.procesar" =>
             /\ llamada.requiere_consulta
             /\ Len(llamada.consulta.opciones) <= 5
             /\ \A i \in DOMAIN llamada.consulta.opciones :
                   llamada.consulta.opciones[i].letra = Letra(i - 1)
             /\ llamada.consulta.recomendacion = "A"
             /\ \E k \in DOMAIN casos.consultas_pendientes :
                   casos.consultas_pendientes[k] = llamada.consulta

\* the resolver met an ambiguous collision and assigned the first candidate
\* to the entry, with no consultation pending
C30_AsignadaSinConsulta ==
    /\ EnColisionAmbigua
    /\ llamada.op = "procesar"
    /\ glosario.entradas[llamada.token].status = "ASIGNADO"
    /\ glosario.entradas[llamada.token].token_tgt = llamada.candidatos[1].termino
    /\ casos.consultas_pendientes = <<>>

\* the strategy called directly raised a consultation that is not pending
C30_ConsultaPerdida ==
    /\ EnColisionAmbigua
    /\ llamada.op = "casos.procesar"
    /\ llamada.requiere_consulta
    /\ llamada.consulta.recomendacion = "A"
    /\ glosario.entradas[llamada.token].status # "ASIGNADO"
    /\ casos.consultas_pendientes = <<>>

\* the Collision strategy was called for a token whose entry already holds
\* a target different from the winning candidate
MapeoDuplicado ==
    /\ llamada.op = "casos.procesar"
    /\ PrimeraMetafora(llamada.candidatos) = 0
    /\ EvaluarCandidatos(llamada.candidatos) # 0
    /\ Truthy(llamada.antes.entradas[llamada.token].token_tgt)
    /\ llamada.antes.entradas[llamada.token].token_tgt
          # llamada.candidatos[EvaluarCandidatos(llamada.candidatos)].termino

\* C31: on a duplicate mapping procesar returns the transliteration of the
\* token without raising, and the target stored in the glossary is unchanged
C31_MapeoDuplicado ==
    MapeoDuplicado =>
       /\ llamada.res.exito
       /\ llamada.res.token_tgt = Unir(Transliterar(Letras(llamada.token)))
       /\ glosario.entradas[llamada.token].token_tgt
             = llamada.antes.entradas[llamada.token].token_tgt

\* on a duplicate mapping the registration of the transliteration raised
\* SinonimiaError out of procesar, with the glossary as it was
C31_Sinonimia ==
    /\ MapeoDuplicado
    /\ ~llamada.res.exito
    /\ glosario = llamada.antes

\* the margin the specification fixes for a resolution reason (NULL is a
\* direct mapping)
MargenEspecificado(reason) ==
    CASE reason = NULL -> 1
      [] reason = "IDIOM" -> 6
      [] reason = "COLLISION" -> 5
      [] reason \in {"NO_ROOT", "GAP_DERIVATION"} -> 4

\* C32: after the resolver has resolved a nucleus its entry holds the target,
\* its tag is the name of the resolution reason (none for a direct mapping)
\* and its margin is the table value of that reason
C32_EtiquetaYMargen ==
    (EnSeleccion /\ llamada.res.exito) =>
       LET entrada == glosario.entradas[llamada.token]
       IN /\ entrada.status = "ASIGNADO"
          /\ entrada.token_tgt = llamada.res.token_tgt
          /\ entrada.etiqueta = llamada.res.reason
          /\ entrada.margen = MargenEspecificado(llamada.res.reason)

\* a nucleus resolved with reason GAP_DERIVATION has an entry tagged NO_ROOT
C32_EtiquetaAjena ==
    /\ EnSeleccion
    /\ llamada.res.exito
    /\ llamada.res.reason = "GAP_DERIVATION"
    /\ glosario.entradas[llamada.token].etiqueta = "NO_ROOT"
    /\ glosario.entradas[llamada.token].margen = 4

\* ------------------------------------------------------------------------
\* The structural heuristic of Phase A and the confirmation of locutions
\* ------------------------------------------------------------------------
\* "bi-nafs-hu", the fragment of the heuristic's own example
FragmentoHeur == Letras("bi") \o <<"-">> \o Letras("nafs") \o <<"-", "h", "u">>

\* the same fragment written as one word
FragmentoUnido == Letras("bi") \o Letras("nafs") \o <<"h", "u">>

\* the texts analysed: the fragment alone, as one word, twice, after another
\* word, and a text the pattern does not match
TextosHeur ==
    {FragmentoHeur, FragmentoUnido, FragmentoHeur \o <<" ">> \o FragmentoHeur,
     Letras("zzz") \o <<" ">> \o FragmentoHeur, TextoDe(<<"bi", "nafs">>)}

\* config.locuciones_predefinidas: none, the fragment itself, its first two words
ConfigsHeur == {<<>>, <<FragmentoHeur>>, <<Letras("bi") \o <<"-">> \o Letras("nafs")>>}

InitHeur ==
    /\ glosario = GlosarioVacio
    /\ gestor = GestorNuevo
    /\ casos = CasosNuevo
    /\ comandos = ComandosNuevo
    /\ config_locs \in ConfigsHeur
    /\ mtx_s = [celdas |-> <<>>, locuciones |-> <<>>]
    /\ mtx_t = NuevaMatrizTarget(0)
    /\ fase_actual = "INICIO"
    /\ errores = <<>>
    /\ resultado = SinResultado
    /\ pc = "libre"
    /\ idx = 0
    /\ llamada = SinLlamada
    /\ obs = ObsInicial

\* glosario.fase_a_procesar(texto, tokens_clasificados) on a document
HeurFaseA ==
    /\ Len(glosario.historial) < MaxHist
    /\ Len(glosario.consultas_pendientes) < MaxConsultas
    /\ \E texto \in TextosHeur :
       \E r \in {FaseAProcesarOp(glosario, texto, TokensClasificados(texto), config_locs)} :
          /\ glosario' = r.g
          /\ llamada' = [op |-> "fase_a_procesar", texto |-> texto, antes |-> glosario,
                         es_locucion |-> FALSE, error |-> r.error]
          /\ UNCHANGED <<comandos, casos, gestor, config_locs, mtx_s, mtx_t, fase_actual, errores,
                         resultado, pc, idx, obs>>

\* glosario.confirmar_locucion(src, es_locucion) for a pending consultation:
\* the user's answer A (True) or B (False)
HeurConfirmar ==
    /\ glosario.locucion_counter < MaxConsultas
    /\ \E src \in {FragmentoHeur, FragmentoUnido}, es_locucion \in BOOLEAN :
          /\ \E k \in DOMAIN glosario.consultas_pendientes :
                glosario.consultas_pendientes[k].token_o_frase = Unir(src)
          /\ glosario' = ConfirmarLocucion(glosario, src, es_locucion, <<>>)
          /\ llamada' = [op |-> "confirmar_locucion", texto |-> src, antes |-> glosario,
                         es_locucion |-> es_locucion, error |-> NULL]
          /\ UNCHANGED <<comandos, casos, gestor, config_locs, mtx_s, mtx_t, fase_actual, errores,
                         resultado, pc, idx, obs>>

NextHeur ==
    \/ HeurFaseA
    \/ HeurConfirmar

SpecHeur == InitHeur /\ [][NextHeur]_vars

\* the matches of the heuristic in the last analysed text that no predefined
\* pattern spells
SoloHeuristica ==
    SelectSeq(MatchesHeuristicos(llamada.texto, 0),
              LAMBDA m : m[2] \notin Rango(config_locs))

\* C33: Phase A appends one pending confirmation query (options A and B,
\* recommendation A) for each fragment matched only by the heuristic, makes
\* no locution of it and locks no entry for it; confirmar_locucion makes one
\* locution when es_locucion is true and changes nothing when it is false
C33_Heuristica ==
    /\ llamada.op = "fase_a_procesar" =>
          LET antes == llamada.antes
              n == Len(antes.consultas_pendientes)
          IN /\ Len(glosario.consultas_pendientes) = n + Len(SoloHeuristica)
             /\ SubSeq(glosario.consultas_pendientes, 1, n) = antes.consultas_pendientes
             /\ \A j \in DOMAIN SoloHeuristica :
                   glosario.consultas_pendientes[n + j] =
                       [numero |-> n + j, codigo |-> "C3_POSIBLE_LOCUCION",
                        contexto |-> SoloHeuristica[j][1],
                        token_o_frase |-> Unir(SoloHeuristica[j][2]),
                        opciones |-> <<"A", "B">>, recomendacion |-> "A"]
             /\ \A k \in (Len(antes.locuciones) + 1)..Len(glosario.locuciones) :
                   \E p \in Rango(config_locs) : glosario.locuciones[k].src = Unir(p)
             /\ \A t \in DOMAIN glosario.entradas :
                   (/\ glosario.entradas[t].status = "BLOQUEADO"
                    /\ ~(Registrado(antes, t) /\ antes.entradas[t].status = "BLOQUEADO"))
                   => \E k \in DOMAIN glosario.locuciones :
                         t \in Rango(glosario.locuciones[k].componentes)
    /\ llamada.op = "confirmar_locucion" =>
          IF llamada.es_locucion
          THEN /\ Len(glosario.locuciones) = Len(llamada.antes.locuciones) + 1
               /\ glosario.locuciones[Len(glosario.locuciones)].src = Unir(llamada.texto)
               /\ glosario.consultas_pendientes = llamada.antes.consultas_pendientes
               /\ glosario.entradas = llamada.antes.entradas
          ELSE glosario = llamada.antes

\* Phase A met a fragment only the heuristic matches: a query is pending, the
\* glossary has no locution and no locked entry
C33_Testigo ==
    /\ llamada.op = "fase_a_procesar"
    /\ SoloHeuristica # <<>>
    /\ glosario.consultas_pendientes # <<>>
    /\ glosario.locuciones = <<>>
    /\ \A t \in DOMAIN glosario.entradas : glosario.entradas[t].status # "BLOQUEADO"

\* the pending fragment has been confirmed as a locution
C33_TestigoConfirmada ==
    /\ llamada.op = "confirmar_locucion"
    /\ llamada.es_locucion
    /\ glosario.locuciones # <<>>

\* ------------------------------------------------------------------------
\* Phase C: the user's modifications of the glossary
\* ------------------------------------------------------------------------
\* glosario.agregar_entrada(token, categoria, tgt)
FaseCAgregarEntrada ==
    /\ pc = "libre"
    /\ Len(glosario.historial) < MaxHist
    /\ \E token \in {"nafs", "zzz"}, tgt \in {NULL, "alma"} :
       \E r \in {AgregarEntradaOp(glosario, token, Clasificar(token)[1], tgt)} :
          /\ glosario' = r.g
          /\ llamada' = [op |-> "agregar_entrada", token |-> token, tgt |-> tgt,
                         antes |-> glosario, ret |-> r.ret]
          /\ UNCHANGED <<comandos, casos, gestor, config_locs, mtx_s, mtx_t, fase_actual, errores,
                         resultado, pc, idx, obs>>

\* glosario.agregar_locucion(src, componentes, posiciones, tgt)
FaseCAgregarLocucion ==
    /\ pc = "libre"
    /\ Len(glosario.historial) < MaxHist
    /\ glosario.locucion_counter < MaxComp
    /\ \E frase \in {<<"bi", "nafs">>} :
          /\ glosario' = AgregarLocucionOp(glosario, Unir(TextoDe(frase)), frase,
                                           0..(Len(frase) - 1), "por-alma")
          /\ llamada' = [op |-> "agregar_locucion", token |-> Unir(TextoDe(frase)),
                         tgt |-> "por-alma", antes |-> glosario, ret |-> TRUE]
          /\ UNCHANGED <<comandos, casos, gestor, config_locs, mtx_s, mtx_t, fase_actual, errores,
                         resultado, pc, idx, obs>>

\* glosario.eliminar_entrada(token)
FaseCEliminar ==
    /\ pc = "libre"
    /\ Len(glosario.historial) < MaxHist
    /\ \E token \in {"nafs", "zzz"} :
       \E r \in {EliminarEntradaOp(glosario, token)} :
          /\ glosario' = r.g
          /\ llamada' = [op |-> "eliminar_entrada", token |-> token, tgt |-> NULL,
                         antes |-> glosario, ret |-> r.ret]
          /\ UNCHANGED <<comandos, casos, gestor, config_locs, mtx_s, mtx_t, fase_actual, errores,
                         resultado, pc, idx, obs>>

\* glosario.fase_b_asignar("nafs", "alma"), the assignment of a resolver
FaseCAsignar ==
    /\ pc = "libre"
    /\ Len(glosario.historial) < MaxHist
    /\ \E r \in {FaseBAsignar(glosario, "nafs", "alma", 1, NULL, NULL)} :
          /\ glosario' = r.g
          /\ llamada' = [op |-> "fase_b_asignar", token |-> "nafs", tgt |-> "alma",
                         antes |-> glosario, ret |-> r.ret]
          /\ UNCHANGED <<comandos, casos, gestor, config_locs, mtx_s, mtx_t, fase_actual, errores,
                         resultado, pc, idx, obs>>

\* glosario.actualizar_entrada("nafs", tgt)
FaseCActualizar ==
    /\ pc = "libre"
    /\ Len(glosario.historial) < MaxHist
    /\ \E tgt \in {"razon", ""} :
       \E r \in {ActualizarEntradaOp(glosario, "nafs", tgt)} :
          /\ glosario' = r.g
          /\ llamada' = [op |-> "actualizar_entrada", token |-> "nafs", tgt |-> tgt,
                         antes |-> glosario, ret |-> r.ret]
          /\ UNCHANGED <<comandos, casos, gestor, config_locs, mtx_s, mtx_t, fase_actual, errores,
                         resultado, pc, idx, obs>>

NextFaseC ==
    \/ GlosFaseA
    \/ FaseCAsignar
    \/ FaseCActualizar
    \/ FaseCAgregarEntrada
    \/ FaseCAgregarLocucion
    \/ FaseCEliminar

SpecFaseC == Init /\ [][NextFaseC]_vars

\* the name of the history record each Phase C operation writes
AccionDe(op) ==
    CASE op = "actualizar_entrada" -> "ACTUALIZACION_USUARIO"
      [] op = "agregar_entrada" -> "ENTRADA_AGREGADA_USUARIO"
      [] op = "agregar_locucion" -> "LOCUCION_AGREGADA_USUARIO"
      [] op = "eliminar_entrada" -> "ENTRADA_ELIMINADA_USUARIO"

OperacionesFaseC ==
    {"actualizar_entrada", "agregar_entrada", "agregar_locucion", "eliminar_entrada"}

\* whether the Phase C call recorded in ll succeeded
ExitoFaseC(ll) == ll.ret

\* C34: every glossary operation keeps the recorded history as a prefix; a
\* successful Phase C operation appends exactly one record, an unsuccessful
\* one none; and a Phase C operation succeeds on the same arguments sealed
\* or not (update and delete on a registered token, add on an unregistered
\* one, add-locution always)
C34_HistorialFaseC ==
    [][LET h == glosario.historial
           hp == glosario'.historial
       IN /\ Len(hp) >= Len(h)
          /\ SubSeq(hp, 1, Len(h)) = h
          /\ llamada'.op \in OperacionesFaseC =>
                /\ ExitoFaseC(llamada') =
                      CASE llamada'.op \in {"actualizar_entrada", "eliminar_entrada"} ->
                              Registrado(glosario, llamada'.token)
                        [] llamada'.op = "agregar_entrada" ->
                              ~Registrado(glosario, llamada'.token)
                        [] llamada'.op = "agregar_locucion" -> TRUE
                /\ IF ExitoFaseC(llamada')
                   THEN /\ Len(hp) = Len(h) + 1
                        /\ hp[Len(hp)].accion = AccionDe(llamada'.op)
                   ELSE glosario' = glosario]_vars

\* a sealed glossary after a successful eliminar_entrada, the deletion logged
C34_Testigo ==
    /\ llamada.op = "eliminar_entrada"
    /\ llamada.ret
    /\ EstaSellado(glosario)
    /\ Len(glosario.historial) = Len(llamada.antes.historial) + 1
    /\ glosario.historial[Len(glosario.historial)].accion = "ENTRADA_ELIMINADA_USUARIO"

\* an unsealed glossary after a successful agregar_locucion
C34_TestigoSinSellar ==
    /\ llamada.op = "agregar_locucion"
    /\ ~EstaSellado(glosario)
    /\ glosario.historial # <<>>

\* ------------------------------------------------------------------------
\* The user's textual answers to the consultation queue (consultas.py)
\* ------------------------------------------------------------------------
Minusculas == <<"a", "b", "c", "d", "e", "f", "g", "h", "i", "j", "k", "l", "m",
                "n", "o", "p", "q", "r", "s", "t", "u", "v", "w", "x", "y", "z">>
Mayusculas == <<"A", "B", "C", "D", "E", "F", "G", "H", "I", "J", "K", "L", "M",
                "N", "O", "P", "Q", "R", "S", "T", "U", "V", "W", "X", "Y", "Z">>

\* the position of c in the sequence s, 0 when it is not there
PosicionEn(s, c) ==
    IF \E i \in DOMAIN s : s[i] = c THEN CHOOSE i \in DOMAIN s : s[i] = c ELSE 0

\* str.lower
Lower(texto) ==
    [i \in DOMAIN texto |->
        IF PosicionEn(Mayusculas, texto[i]) # 0
        THEN Minusculas[PosicionEn(Mayusculas, texto[i])] ELSE texto[i]]

\* str.upper of one letter
Upper(c) == IF PosicionEn(Minusculas, c) # 0 THEN Mayusculas[PosicionEn(Minusculas, c)] ELSE c

RECURSIVE Entero(_)
\* int(digits)
Entero(digs) ==
    IF digs = <<>> THEN 0
    ELSE 10 * Entero(SubSeq(digs, 1, Len(digs) - 1)) + (PosicionEn(Digitos, digs[Len(digs)]) - 1)

\* offset of the first character at or after k that is not in C
Saltar(texto, k, C) ==
    LET fuera == {j \in k..(Len(texto) - 1) : texto[j + 1] \notin C}
    IN IF fuera = {} THEN Len(texto) ELSE CHOOSE j \in fuera : \A i \in fuera : j <= i

RECURSIVE DecisionesDe(_, _, _)
\* the loop over re.findall(r'(\d+)\s*[-]?\s*([a-z])', texto) from offset k
\* on: the dict {numero: letra.upper()}, a later match replacing an earlier one
DecisionesDe(texto, k, acc) ==
    IF k >= Len(texto) THEN acc
    ELSE IF texto[k + 1] \notin Rango(Digitos) THEN DecisionesDe(texto, k + 1, acc)
    ELSE LET e == Saltar(texto, k, Rango(Digitos))
             j == Saltar(texto, e, {" "})
             j2 == IF j < Len(texto) /\ texto[j + 1] = "-" THEN j + 1 ELSE j
             j3 == Saltar(texto, j2, {" "})
             num == Entero(SubSeq(texto, k + 1, e))
         IN IF j3 < Len(texto) /\ texto[j3 + 1] \in Rango(Minusculas)
            THEN DecisionesDe(texto, j3 + 1,
                     [n \in DOMAIN acc \cup {num} |->
                         IF n = num THEN Upper(texto[j3 + 1]) ELSE acc[n]])
            ELSE DecisionesDe(texto, e, acc)

\* the text before the first "." (the whole text when it has none)
AntesDelPunto(texto) ==
    LET puntos == {i \in DOMAIN texto : texto[i] = "."}
    IN IF puntos = {} THEN texto
       ELSE SubSeq(texto, 1, (CHOOSE i \in puntos : \A j \in puntos : i <= j) - 1)

TxtPausa == <<"p", "a", "u", "s", "a">>
TxtPausaMayus == <<" ", "P", "A", "U", "S", "A", " ">>
TxtTodosRec == <<"t", "o", "d", "o", "s", "-", "r", "e", "c">>
TxtUnoB == <<"1", "b">>
TxtDosA == <<"2", "-", "a">>
TxtUnoTres == <<"1", " ", "a", " ", "3", "b">>
TxtUnoResto == <<"1", "b", " ", "r", "e", "s", "t", "o", "-", "r", "e", "c">>
TxtRestoRec == <<"r", "e", "s", "t", "o", " ", "r", "e", "c">>
TxtInstruccion == <<"1", "a", ".", " ", "r", "e", "s", "t", "o", "-", "r", "e", "c">>
TxtDoce == <<"1", "2", "b">>
TxtVacio == <<>>

\* RespuestaUsuario.desde_texto (the additional instructions, which
\* _procesar_instruccion ignores, are left out)
DesdeTexto(texto_crudo) ==
    LET texto == Lower(Strip(texto_crudo))
    IN IF texto = TxtPausa
       THEN [decisiones |-> <<>>, usar_recomendaciones |-> FALSE, pausar |-> TRUE]
       ELSE IF texto = TxtTodosRec
       THEN [decisiones |-> <<>>, usar_recomendaciones |-> TRUE, pausar |-> FALSE]
       ELSE LET t == AntesDelPunto(texto)
            IN [decisiones |-> DecisionesDe(t, 0, <<>>),
                usar_recomendaciones |->
                    Find(<<"r", "e", "s", "t", "o", "-", "r", "e", "c">>, t) # -1
                    \/ Find(TxtRestoRec, t) # -1,
                pausar |-> FALSE]

\* the answers the user types
TextosUsuario == {TxtPausaMayus, TxtTodosRec, TxtDosA, TxtUnoTres, TxtUnoResto, TxtInstruccion}

\* gestor.procesar_respuesta(RespuestaUsuario.desde_texto(texto))
RespProcesarTexto ==
    \E texto \in TextosUsuario :
    \E respuesta \in {DesdeTexto(texto)} :
    \E r \in {ProcesarRespuesta(gestor, respuesta)} :
        /\ gestor' = r.gs
        /\ llamada' = [op |-> "procesar_respuesta", texto |-> texto,
                       respuesta |-> respuesta, antes |-> gestor, ret |-> r.ret]
        /\ UNCHANGED <<comandos, casos, glosario, config_locs, mtx_s, mtx_t, fase_actual, errores,
                       resultado, pc, idx, obs>>

\* gestor.crear_consulta(...), the text field of the call left empty
RespCrear ==
    \E c \in {k \in ConsultasCreadas : k[1] = "C2_COLLISION_DUDA"} :
        /\ gestor.contador < MaxConsultas
        /\ gestor' = CrearConsulta(gestor, c[1], "contexto", "nafs", c[2], c[3])
        /\ llamada' = [op |-> "crear_consulta", texto |-> <<>>,
                       respuesta |-> DesdeTexto(<<>>), antes |-> gestor,
                       ret |-> <<>>]
        /\ UNCHANGED <<comandos, casos, glosario, config_locs, mtx_s, mtx_t, fase_actual, errores,
                       resultado, pc, idx, obs>>

\* gestor.aplicar_recomendaciones_pendientes()
RespAplicar ==
    \E r \in {AplicarRecomendacionesPendientes(gestor)} :
        /\ gestor' = r.gs
        /\ llamada' = [op |-> "aplicar_recomendaciones_pendientes", texto |-> <<>>,
                       respuesta |-> DesdeTexto(<<>>), antes |-> gestor, ret |-> r.ret]
        /\ UNCHANGED <<comandos, casos, glosario, config_locs, mtx_s, mtx_t, fase_actual, errores,
                       resultado, pc, idx, obs>>

\* gestor.set_auto_decidir(valor)
RespSetAutoDecidir ==
    \E valor \in BOOLEAN :
        /\ gestor' = SetAutoDecidir(gestor, valor)
        /\ llamada' = [op |-> "set_auto_decidir", texto |-> <<>>,
                       respuesta |-> DesdeTexto(<<>>), antes |-> gestor, ret |-> <<>>]
        /\ UNCHANGED <<comandos, casos, glosario, config_locs, mtx_s, mtx_t, fase_actual, errores,
                       resultado, pc, idx, obs>>

NextRespuesta ==
    \/ RespCrear
    \/ RespProcesarTexto
    \/ RespAplicar
    \/ RespSetAutoDecidir

SpecRespuesta == Init /\ [][NextRespuesta]_vars

\* the consultations pending when the last call started, by index
PendientesAntes == ObtenerPendientes(llamada.antes)

\* the text of the last answer is the pause signal
EsPausa == Lower(Strip(llamada.texto)) = TxtPausa

\* C35: procesar_respuesta resolves a pending consultation with the letter
\* the answer gives for its number, every other pending one with its own
\* recommendation when (and only when) the answer asks for recommendations,
\* and nothing for the pause signal; aplicar_recomendaciones_pendientes is
\* enabled in every state and leaves nothing pending, each formerly pending
\* consultation resolved with its recommendation
C35_Respuestas ==
    /\ ENABLED RespAplicar
    /\ llamada.op = "procesar_respuesta" =>
          /\ Len(gestor.consultas) = Len(llamada.antes.consultas)
          /\ \A k \in DOMAIN gestor.consultas :
                LET antes == llamada.antes.consultas[k]
                    num == antes.consulta.numero
                IN IF k \in PendientesAntes /\ num \in DOMAIN llamada.respuesta.decisiones
                   THEN gestor.consultas[k] =
                           [antes EXCEPT !.estado = "RESPONDIDA",
                                         !.respuesta = llamada.respuesta.decisiones[num]]
                   ELSE IF k \in PendientesAntes /\ llamada.respuesta.usar_recomendaciones
                   THEN gestor.consultas[k] =
                           [antes EXCEPT !.estado = "RESPONDIDA",
                                         !.respuesta = antes.consulta.recomendacion]
                   ELSE gestor.consultas[k] = antes
          /\ EsPausa => gestor = llamada.antes
    /\ llamada.op = "aplicar_recomendaciones_pendientes" =>
          /\ ObtenerPendientes(gestor) = {}
          /\ Len(gestor.consultas) = Len(llamada.antes.consultas)
          /\ \A k \in DOMAIN gestor.consultas :
                LET antes == llamada.antes.consultas[k]
                IN IF k \in PendientesAntes
                   THEN gestor.consultas[k] =
                           [antes EXCEPT !.estado = "INFERIDA",
                                         !.respuesta = antes.consulta.recomendacion]
                   ELSE gestor.consultas[k] = antes

\* desde_texto on the answers of the model: the letters by number, the
\* request for recommendations and the pause signal
C35_Lectura ==
    /\ DesdeTexto(TxtPausa) = [decisiones |-> <<>>, usar_recomendaciones |-> FALSE, pausar |-> TRUE]
    /\ DesdeTexto(TxtPausaMayus).pausar
    /\ DesdeTexto(TxtTodosRec) = [decisiones |-> <<>>, usar_recomendaciones |-> TRUE, pausar |-> FALSE]
    /\ DesdeTexto(TxtUnoB) = [decisiones |-> 1 :> "B", usar_recomendaciones |-> FALSE, pausar |-> FALSE]
    /\ DesdeTexto(TxtDosA).decisiones = 2 :> "A"
    /\ DesdeTexto(TxtUnoTres).decisiones = (1 :> "A") @@ (3 :> "B")
    /\ DesdeTexto(TxtUnoResto) = [decisiones |-> 1 :> "B", usar_recomendaciones |-> TRUE, pausar |-> FALSE]
    /\ DesdeTexto(TxtRestoRec) = [decisiones |-> <<>>, usar_recomendaciones |-> TRUE, pausar |-> FALSE]
    /\ DesdeTexto(TxtInstruccion) = [decisiones |-> 1 :> "A", usar_recomendaciones |-> FALSE, pausar |-> FALSE]
    /\ DesdeTexto(TxtDoce).decisiones = 12 :> "B"
    /\ DesdeTexto(TxtVacio) = [decisiones |-> <<>>, usar_recomendaciones |-> FALSE, pausar |-> FALSE]

\* an answer resolved one consultation by its letter and another by its
\* recommendation while a third, resolved before, kept its answer
C35_Testigo ==
    /\ llamada.op = "procesar_respuesta"
    /\ llamada.texto = TxtUnoResto
    /\ Cardinality(PendientesAntes) >= 2
    /\ 1 \in PendientesAntes
    /\ gestor.consultas[1].respuesta = "B"
    /\ \E k \in PendientesAntes :
          /\ k # 1
          /\ gestor.consultas[k].respuesta = gestor.consultas[k].consulta.recomendacion
    /\ ObtenerPendientes(gestor) = {}

\* the pause signal met pending consultations and left them pending
C35_TestigoPausa ==
    /\ llamada.op = "procesar_respuesta"
    /\ EsPausa
    /\ PendientesAntes # {}
    /\ ObtenerPendientes(gestor) = PendientesAntes

\* the automatic resolution ran with auto_decidir off and resolved a consultation
C35_TestigoAutomatica ==
    /\ llamada.op = "aplicar_recomendaciones_pendientes"
    /\ ~gestor.auto_decidir
    /\ PendientesAntes # {}
    /\ ObtenerPendientes(gestor) = {}

\* C36: after procesar_oracion ends in CORE_OK no cell of the target matrix
\* has kind pendiente
C36_SinPendientes ==
    CoreOk => \A i \in DOMAIN mtx_t.celdas : mtx_t.celdas[i].tipo # "pendiente"

\* CORE_OK with a particle whose candidate passed the cohesion check: the
\* cell holds the candidate and still has kind pendiente
C36_PendienteTraducida ==
    /\ CoreOk
    /\ \E i \in DOMAIN mtx_t.celdas :
          /\ mtx_s.celdas[i].slot.clase = "P"
          /\ mtx_t.celdas[i].tipo = "pendiente"
          /\ Truthy(mtx_t.celdas[i].token_tgt)
          /\ glosario.entradas[mtx_s.celdas[i].slot.token_src].status = "ASIGNADO"

\* the kinds a particle cell has after CORE_OK
C36_TiposDeParticula ==
    CoreOk =>
       \A i \in DOMAIN mtx_t.celdas :
          mtx_s.celdas[i].slot.clase = "P" =>
             mtx_t.celdas[i].tipo \in {"pendiente", "nulo", "sin_traduccion", "locucion",
                                       "absorbido"}

\* C37: in every state reached by fase_b_asignar, actualizar_entrada,
\* agregar_entrada and agregar_locucion an entry has status ASIGNADO if and
\* only if it holds a non-empty target
C37_StatusYTarget ==
    \A t \in DOMAIN glosario.entradas :
       (glosario.entradas[t].status = "ASIGNADO") <=> Truthy(glosario.entradas[t].token_tgt)

\* actualizar_entrada wrote a target on a pending entry: the entry holds the
\* target, its status is still PENDIENTE and the cache check of F2 misses it
C37_TargetSinStatus ==
    /\ llamada.op = "actualizar_entrada"
    /\ llamada.ret
    /\ llamada.tgt = "razon"
    /\ llamada.antes.entradas[llamada.token].status = "PENDIENTE"
    /\ glosario.entradas[llamada.token].token_tgt = "razon"
    /\ glosario.entradas[llamada.token].status = "PENDIENTE"
    /\ F2CacheCheck(glosario, [token_src |-> llamada.token]) = NULL

\* actualizar_entrada emptied the target of an assigned entry, which stays ASIGNADO
C37_StatusSinTarget ==
    /\ llamada.op = "actualizar_entrada"
    /\ llamada.tgt = ""
    /\ Registrado(glosario, llamada.token)
    /\ glosario.entradas[llamada.token].status = "ASIGNADO"
    /\ glosario.entradas[llamada.token].token_tgt = ""

\* agregar_locucion locked a component that holds a target
C37_BloqueadoConTarget ==
    /\ llamada.op = "agregar_locucion"
    /\ \E t \in DOMAIN glosario.entradas :
          /\ glosario.entradas[t].status = "BLOQUEADO"
          /\ Truthy(glosario.entradas[t].token_tgt)

\* ------------------------------------------------------------------------
\* SpecMatriz: the source matrices _crear_matriz_fuente builds for the
\* sentences of the documents analysed so far (main.py, models.py)
\* ------------------------------------------------------------------------
\* the documents handed to traducir, one after another
DocumentosMatriz == {<<"bi", "nafs">>, <<"zzz", "law">>, <<"nafs", "bi">>, <<"zzz">>}

InitMatriz ==
    /\ glosario = GlosarioVacio
    /\ gestor = GestorNuevo
    /\ casos = CasosNuevo
    /\ comandos = ComandosNuevo
    /\ config_locs = <<TextoDe(<<"bi", "nafs">>)>>
    /\ mtx_s = [celdas |-> <<>>, locuciones |-> <<>>]
    /\ mtx_t = NuevaMatrizTarget(0)
    /\ fase_actual = "INICIO"
    /\ errores = <<>>
    /\ resultado = SinResultado
    /\ pc = "libre"
    /\ idx = 0
    /\ llamada = SinLlamada
    /\ obs = ObsInicial

\* _fase_analisis_lexico(texto) of a document
MatrizFaseA ==
    /\ Len(glosario.historial) < MaxHist
    /\ \E doc \in DocumentosMatriz :
       \E r \in {FaseAProcesarOp(glosario, TextoDe(doc), TokensClasificados(TextoDe(doc)),
                                 config_locs)} :
          /\ glosario' = r.g
          /\ llamada' = [op |-> "fase_a_procesar", oracion |-> doc, error |-> r.error]
          /\ UNCHANGED <<comandos, casos, gestor, config_locs, mtx_s, mtx_t, fase_actual, errores,
                         resultado, pc, idx, obs>>

\* _crear_matriz_fuente(oracion) for a sentence of an analysed document
MatrizCrear ==
    /\ EstaSellado(glosario)
    /\ \E oracion \in DocumentosMatriz :
          /\ \A i \in DOMAIN oracion : Registrado(glosario, oracion[i])
          /\ mtx_s' = CrearMatrizFuente(glosario, TextoDe(oracion))
          /\ llamada' = [op |-> "_crear_matriz_fuente", oracion |-> oracion, error |-> NULL]
          /\ UNCHANGED <<comandos, casos, gestor, glosario, config_locs, mtx_t, fase_actual, errores,
                         resultado, pc, idx, obs>>

NextMatriz ==
    \/ MatrizFaseA
    \/ MatrizCrear

SpecMatriz == InitMatriz /\ [][NextMatriz]_vars

\* C38: a slot of the source matrix that is BLOQUEADO with locucion_id L
\* holds one of the component tokens of the glossary's locution L
C38_BloqueoPorLocucion ==
    \A i \in DOMAIN mtx_s.celdas :
       mtx_s.celdas[i].slot.status = "BLOQUEADO" =>
          /\ \E k \in DOMAIN glosario.locuciones :
                glosario.locuciones[k].id = mtx_s.celdas[i].slot.locucion_id
          /\ mtx_s.celdas[i].token_src \in
                Rango(LocucionDe(glosario, mtx_s.celdas[i].slot.locucion_id).componentes)

\* a sentence whose slot is locked by a locution that does not hold its token
C38_BloqueoAjeno ==
    \E i \in DOMAIN mtx_s.celdas :
       /\ llamada.op = "_crear_matriz_fuente"
       /\ mtx_s.celdas[i].slot.status = "BLOQUEADO"
       /\ Registrado(glosario, mtx_s.celdas[i].token_src)
       /\ glosario.entradas[mtx_s.celdas[i].token_src].status = "PENDIENTE"
       /\ \E k \in DOMAIN glosario.locuciones :
             /\ glosario.locuciones[k].id = mtx_s.celdas[i].slot.locucion_id
             /\ mtx_s.celdas[i].token_src \notin Rango(glosario.locuciones[k].componentes)
             /\ mtx_s.celdas[i].pos \in glosario.locuciones[k].posiciones

\* ------------------------------------------------------------------------
\* SpecLocId: the creators of locutions on a glossary that may have been
\* exported and imported again (glossary.py, main.py)
\* ------------------------------------------------------------------------
\* glosario.fase_a_procesar on the document of the predefined locution
LocFaseA ==
    /\ Len(glosario.historial) < MaxHist
    /\ TotalOcurrencias(glosario) + 2 <= MaxOcurr
    /\ \E r \in {FaseAProcesarOp(glosario, TextoDe(<<"bi", "nafs">>),
                                 TokensClasificados(TextoDe(<<"bi", "nafs">>)),
                                 config_locs)} :
          /\ glosario' = r.g
          /\ llamada' = [op |-> "fase_a_procesar", token |-> "bi nafs", tgt |-> NULL,
                         antes |-> glosario, ret |-> r.error = NULL]
          /\ UNCHANGED <<comandos, casos, gestor, config_locs, mtx_s, mtx_t, fase_actual, errores,
                         resultado, pc, idx, obs>>

\* glosario.confirmar_locucion("law zzz", True)
LocConfirmar ==
    /\ glosario.locucion_counter < MaxComp
    /\ glosario' = ConfirmarLocucion(glosario, TextoDe(<<"law", "zzz">>), TRUE, <<>>)
    /\ llamada' = [op |-> "confirmar_locucion", token |-> "law zzz", tgt |-> NULL,
                   antes |-> glosario, ret |-> TRUE]
    /\ UNCHANGED <<comandos, casos, gestor, config_locs, mtx_s, mtx_t, fase_actual, errores,
                   resultado, pc, idx, obs>>

\* SistemaTraduccion.importar_glosario(exportar_glosario()): the glossary in
\* use is replaced by Glosario.importar_json of its own export
LocImportar ==
    /\ glosario.locuciones # <<>>
    /\ glosario' = ImportarJson(ExportarJson(glosario))
    /\ llamada' = [op |-> "importar_glosario", token |-> NULL, tgt |-> NULL,
                   antes |-> glosario, ret |-> TRUE]
    /\ UNCHANGED <<comandos, casos, gestor, config_locs, mtx_s, mtx_t, fase_actual, errores,
                   resultado, pc, idx, obs>>

NextLocId ==
    \/ LocFaseA
    \/ FaseCAgregarLocucion
    \/ LocConfirmar
    \/ LocImportar

SpecLocId == Init /\ [][NextLocId]_vars

\* the ids of the locutions of g
IdsDe(g) == {g.locuciones[k].id : k \in DOMAIN g.locuciones}

\* the last call was one of the creators of locutions and created one
CreoLocucion ==
    /\ llamada.op \in {"fase_a_procesar", "agregar_locucion", "confirmar_locucion"}
    /\ glosario.locucion_counter = llamada.antes.locucion_counter + 1

\* C40: a created locution gets an id no locution of the glossary had, and
\* every locution the glossary held is still there, also when the glossary
\* came from importar_json
C40_IdsSinReuso ==
    CreoLocucion =>
       /\ LocId(glosario.locucion_counter) \notin IdsDe(llamada.antes)
       /\ \A k \in DOMAIN llamada.antes.locuciones :
             \E j \in DOMAIN glosario.locuciones :
                glosario.locuciones[j] = llamada.antes.locuciones[k]

\* on an imported glossary the created locution took the id of an existing
\* one and replaced it
C40_Sobrescrita ==
    /\ CreoLocucion
    /\ llamada.antes.locucion_counter = 0
    /\ llamada.antes.locuciones # <<>>
    /\ Len(glosario.locuciones) = Len(llamada.antes.locuciones)
    /\ \E k \in DOMAIN glosario.locuciones :
          /\ glosario.locuciones[k].id = llamada.antes.locuciones[k].id
          /\ glosario.locuciones[k].src # llamada.antes.locuciones[k].src

\* the same on glossaries that were never imported: the counter is at least
\* the number of locutions
C40_SinImportar ==
    (CreoLocucion /\ llamada.antes.locucion_counter >= Len(llamada.antes.locuciones)) =>
       /\ LocId(glosario.locucion_counter) \notin IdsDe(llamada.antes)
       /\ Len(glosario.locuciones) = Len(llamada.antes.locuciones) + 1

\* ------------------------------------------------------------------------
\* The command surface: ProcesadorComandos.procesar and the confirmation
\* of ACTUALIZA, ELIMINA and REINICIAR (comandos.py)
\* ------------------------------------------------------------------------
\* str.upper of a text
UpperTexto(texto) == [i \in DOMAIN texto |-> Upper(texto[i])]

\* str.startswith
StartsWith(texto, prefijo) ==
    Len(prefijo) <= Len(texto) /\ SubSeq(texto, 1, Len(prefijo)) = prefijo

\* "i'" stands for the accented i of the answer "si'" (U+00ED)
Afirmativas == {<<"s", "i'">>, <<"s", "i">>, <<"s">>, <<"y", "e", "s">>, <<"y">>}

Negativas == {<<"n", "o">>, <<"n">>, <<"c", "a", "n", "c", "e", "l", "a", "r">>,
              <<"c", "a", "n", "c", "e", "l">>}

Opciones == {<<"A">>, <<"B">>, <<"C">>}

\* COMANDOS in the order of the dict: the commands before ELIMINA whose names
\* and aliases are plain letters, then ELIMINA and REINICIAR
COMANDOS ==
    << [nombre |-> <<"G", "L", "O", "S", "A", "R", "I", "O">>,
        aliases |-> << <<"g", "l", "o", "s", "a", "r", "i", "o">>, <<"g">> >>],
       [nombre |-> <<"L", "O", "C", "U", "C", "I", "O", "N", "E", "S">>,
        aliases |-> << <<"l", "o", "c", "u", "c", "i", "o", "n", "e", "s">>,
                       <<"l", "o", "c">> >>],
       [nombre |-> <<"A", "L", "T", "E", "R", "N", "A", "T", "I", "V", "A", "S">>,
        aliases |-> << <<"a", "l", "t", "e", "r", "n", "a", "t", "i", "v", "a", "s">>,
                       <<"a", "l", "t">> >>],
       [nombre |-> <<"D", "E", "C", "I", "S", "I", "O", "N", "E", "S">>,
        aliases |-> << <<"d", "e", "c", "i", "s", "i", "o", "n", "e", "s">>,
                       <<"d", "e", "c">> >>],
       [nombre |-> <<"C", "O", "N", "F", "I", "G", "U", "R", "A", "C", "I", "O", "N">>,
        aliases |-> << <<"c", "o", "n", "f", "i", "g", "u", "r", "a", "c", "i", "o", "n">>,
                       <<"c", "o", "n", "f", "i", "g">>, <<"c", "o", "n", "f">> >>],
       [nombre |-> <<"E", "S", "T", "A", "D", "O">>,
        aliases |-> << <<"e", "s", "t", "a", "d", "o">>, <<"e", "s", "t">> >>],
       [nombre |-> <<"A", "C", "T", "U", "A", "L", "I", "Z", "A">>,
        aliases |-> << <<"a", "c", "t", "u", "a", "l", "i", "z", "a">>,
                       <<"a", "c", "t">> >>],
       [nombre |-> <<"E", "L", "I", "M", "I", "N", "A">>,
        aliases |-> << <<"e", "l", "i", "m", "i", "n", "a">>, <<"d", "e", "l">> >>],
       [nombre |-> <<"R", "E", "I", "N", "I", "C", "I", "A", "R">>,
        aliases |-> << <<"r", "e", "i", "n", "i", "c", "i", "a", "r">>,
                       <<"r", "e", "s", "e", "t">> >>] >>

\* the first alias of the list that the lowered input starts with, <<>> if none
PrimerAlias(entrada, aliases) ==
    LET hits == {j \in DOMAIN aliases : StartsWith(Lower(entrada), aliases[j])}
    IN IF hits = {} THEN <<>>
       ELSE aliases[CHOOSE j \in hits : \A i \in hits : j <= i]

\* one iteration of the loop of _parsear_comando: the length of the matched
\* name or alias of command defn, 0 when the input matches neither
Coincidencia(entrada, defn) ==
    IF StartsWith(UpperTexto(entrada), defn.nombre) THEN Len(defn.nombre)
    ELSE Len(PrimerAlias(entrada, defn.aliases))

\* _parsear_comando: [comando, args], comando NULL when nothing matches
ParsearComando(entrada_cruda) ==
    LET sin == IF entrada_cruda # <<>> /\ Head(entrada_cruda) = "["
                  /\ entrada_cruda[Len(entrada_cruda)] = "]"
               THEN SubSeq(entrada_cruda, 2, Len(entrada_cruda) - 1)
               ELSE entrada_cruda
        entrada == Strip(sin)
        hits == {k \in DOMAIN COMANDOS : Coincidencia(entrada, COMANDOS[k]) > 0}
    IN IF hits = {} THEN [comando |-> NULL, args |-> <<>>]
       ELSE LET k == CHOOSE k \in hits : \A i \in hits : k <= i
            IN [comando |-> Unir(COMANDOS[k].nombre),
                args |-> Strip(SubSeq(entrada, Coincidencia(entrada, COMANDOS[k]) + 1,
                                      Len(entrada)))]

\* re.match(r'(\S+)\s*=\s*(.+)', args): [hay, token, nueva], nueva stripped
MatchActualiza(args) ==
    LET espacios == {j \in 0..(Len(args) - 1) : args[j + 1] = " "}
        run == IF espacios = {} THEN Len(args)
               ELSE CHOOSE j \in espacios : \A i \in espacios : j <= i
        cortes == {i \in 1..run :
                      LET j == Saltar(args, i, {" "})
                      IN j + 1 < Len(args) /\ args[j + 1] = "="}
    IN IF cortes = {} THEN [hay |-> FALSE, token |-> "", nueva |-> ""]
       ELSE LET i == CHOOSE i \in cortes : \A m \in cortes : m <= i
                j == Saltar(args, i, {" "})
            IN [hay |-> TRUE, token |-> Unir(SubSeq(args, 1, i)),
                nueva |-> Unir(Strip(SubSeq(args, j + 2, Len(args))))]

\* a ResultadoComando: the success flag, the kind of message and the
\* requiere_confirmacion flag
ResultadoComando(exito, mensaje, requiere) ==
    [exito |-> exito, mensaje |-> mensaje, requiere_confirmacion |-> requiere]

\* _cmd_actualiza: [g, c, res]
CmdActualiza(g, c, args) ==
    LET m == MatchActualiza(args)
    IN IF ~m.hay
       THEN [g |-> g, c |-> c, res |-> ResultadoComando(FALSE, "formato", FALSE)]
       ELSE IF ~Registrado(g, m.token)
       THEN [g |-> g, c |-> c, res |-> ResultadoComando(FALSE, "no_encontrado", FALSE)]
       ELSE [g |-> g,
             c |-> [c EXCEPT !.confirmacion_pendiente =
                       [nombre |-> "actualiza", token |-> m.token, nueva |-> m.nueva]],
             res |-> ResultadoComando(TRUE, "confirmar", TRUE)]

\* _cmd_elimina: [g, c, res]
CmdElimina(g, c, args) ==
    LET token == Unir(Strip(args))
    IN IF token = ""
       THEN [g |-> g, c |-> c, res |-> ResultadoComando(FALSE, "formato", FALSE)]
       ELSE IF ~Registrado(g, token)
       THEN [g |-> g, c |-> c, res |-> ResultadoComando(FALSE, "no_encontrado", FALSE)]
       ELSE [g |-> g,
             c |-> [c EXCEPT !.confirmacion_pendiente =
                       [nombre |-> "elimina", token |-> token, nueva |-> NULL]],
             res |-> ResultadoComando(TRUE, "confirmar", TRUE)]

\* _cmd_reiniciar: [g, c, res]
CmdReiniciar(g, c) ==
    [g |-> g,
     c |-> [c EXCEPT !.confirmacion_pendiente =
               [nombre |-> "reiniciar", token |-> NULL, nueva |-> NULL]],
     res |-> ResultadoComando(TRUE, "confirmar", TRUE)]

\* the callback of a pending confirmation: _ejecutar_actualiza,
\* _ejecutar_elimina or _ejecutar_reiniciar (no REINICIAR callback is set)
EjecutarPendiente(g, pend) ==
    IF pend.nombre = "actualiza"
    THEN LET r == ActualizarEntradaOp(g, pend.token, pend.nueva)
         IN [g |-> r.g,
             res |-> IF r.ret THEN ResultadoComando(TRUE, "actualizado", FALSE)
                     ELSE ResultadoComando(FALSE, "error", FALSE)]
    ELSE IF pend.nombre = "elimina"
    THEN LET r == EliminarEntradaOp(g, pend.token)
         IN [g |-> r.g,
             res |-> IF r.ret THEN ResultadoComando(TRUE, "eliminado", FALSE)
                     ELSE ResultadoComando(FALSE, "error", FALSE)]
    ELSE [g |-> g, res |-> ResultadoComando(TRUE, "reiniciada", FALSE)]

\* _procesar_confirmacion: [g, c, res]
ProcesarConfirmacion(g, c, entrada_cruda) ==
    LET entrada == Lower(Strip(entrada_cruda))
        libre == [c EXCEPT !.confirmacion_pendiente = SinConfirmacion]
    IN IF entrada \in Afirmativas
       THEN LET r == EjecutarPendiente(g, c.confirmacion_pendiente)
            IN [g |-> r.g, c |-> libre, res |-> r.res]
       ELSE IF entrada \in Negativas
       THEN [g |-> g, c |-> libre, res |-> ResultadoComando(TRUE, "cancelada", FALSE)]
       ELSE IF UpperTexto(entrada) \in Opciones
       THEN LET r == EjecutarPendiente(g, c.confirmacion_pendiente)
            IN [g |-> r.g, c |-> libre, res |-> r.res]
       ELSE [g |-> g, c |-> c, res |-> ResultadoComando(FALSE, "responda", TRUE)]

\* _ejecutar_comando on the commands of the table: [g, c, res]
EjecutarComando(g, c, comando, args) ==
    IF comando = "ACTUALIZA" THEN CmdActualiza(g, c, args)
    ELSE IF comando = "ELIMINA" THEN CmdElimina(g, c, args)
    ELSE IF comando = "REINICIAR" THEN CmdReiniciar(g, c)
    ELSE [g |-> g, c |-> c, res |-> ResultadoComando(TRUE, "consulta", FALSE)]

\* ProcesadorComandos.procesar: [g, c, res]
ProcesarComando(g, c, entrada_cruda) ==
    LET entrada == Strip(entrada_cruda)
    IN IF c.confirmacion_pendiente # SinConfirmacion
       THEN ProcesarConfirmacion(g, c, entrada)
       ELSE LET p == ParsearComando(entrada)
            IN IF p.comando = NULL
               THEN [g |-> g, c |-> c, res |-> ResultadoComando(FALSE, "no_reconocido", FALSE)]
               ELSE EjecutarComando(g, c, p.comando, p.args)

\* the inputs typed at the command surface
TxtActualiza == <<"A", "C", "T", "U", "A", "L", "I", "Z", "A", " ", "n", "a", "f", "s",
                  " ", "=", " ", "r", "a", "z", "o", "n">>
TxtActCorchetes == <<"[", "a", "c", "t", " ", "n", "a", "f", "s", "=", "a", "l", "m", "a", "]">>
TxtElimina == <<"E", "L", "I", "M", "I", "N", "A", " ", "n", "a", "f", "s">>
TxtDel == <<"d", "e", "l", " ", "b", "i">>
TxtEliminaAjeno == <<"E", "L", "I", "M", "I", "N", "A", " ", "z", "z", "z">>
TxtReiniciar == <<"R", "E", "I", "N", "I", "C", "I", "A", "R">>
TxtGlosario == <<"g">>
TxtSiMayus == <<"S", "I">>
TxtSiAcento == <<" ", "s", "i'">>
TxtNo == <<"n", "o">>
TxtOpcionA == <<"a">>
TxtOpcionB == <<"B">>
TxtOtra == <<"x">>

EntradasComando ==
    {TxtActualiza, TxtActCorchetes, TxtElimina, TxtDel, TxtEliminaAjeno, TxtReiniciar,
     TxtGlosario, TxtSiMayus, TxtSiAcento, TxtNo, TxtOpcionA, TxtOpcionB, TxtOtra}

\* procesador.procesar(entrada) on the glossary of the system
CmdProcesar ==
    /\ pc = "libre"
    /\ Len(glosario.historial) < MaxHist
    /\ \E entrada \in EntradasComando :
       \E r \in {ProcesarComando(glosario, comandos, entrada)} :
          /\ glosario' = r.g
          /\ comandos' = r.c
          /\ llamada' = [op |-> "procesar", entrada |-> entrada, antes |-> glosario,
                         pendiente |-> comandos.confirmacion_pendiente, res |-> r.res]
          /\ UNCHANGED <<casos, gestor, config_locs, mtx_s, mtx_t, fase_actual, errores,
                         resultado, pc, idx, obs>>

NextComandos == GlosFaseA \/ CmdProcesar

SpecComandos == Init /\ [][NextComandos]_vars

EnComando == llamada.op = "procesar"

\* a confirmation was pending when the last input was processed
HabiaPendiente == llamada.pendiente # SinConfirmacion

\* the last input, read as the answer to a confirmation
RespuestaDada == Lower(Strip(llamada.entrada))

RespuestasDeConfirmacion ==
    {"actualizado", "eliminado", "error", "reiniciada", "cancelada", "responda"}

\* C39: ACTUALIZA and ELIMINA do not modify the glossary when issued; while
\* a confirmation is pending every input is treated as its answer; the
\* glossary is modified only after an affirmative answer (si', si, s, yes,
\* y), a negative answer cancels with the glossary unchanged, and any other
\* input leaves the glossary unchanged and the confirmation still pending
C39_Confirmacion ==
    EnComando =>
        /\ ~HabiaPendiente => glosario = llamada.antes
        /\ HabiaPendiente => llamada.res.mensaje \in RespuestasDeConfirmacion
        /\ glosario # llamada.antes => HabiaPendiente /\ RespuestaDada \in Afirmativas
        /\ (HabiaPendiente /\ RespuestaDada \in Negativas) =>
              /\ glosario = llamada.antes
              /\ comandos.confirmacion_pendiente = SinConfirmacion
        /\ (HabiaPendiente /\ RespuestaDada \notin Afirmativas \cup Negativas) =>
              /\ glosario = llamada.antes
              /\ comandos.confirmacion_pendiente = llamada.pendiente

\* (reachable) the answer "a" or "B" to the confirmation of an ACTUALIZA or
\* an ELIMINA runs the pending operation: the glossary is modified and no
\* confirmation is pending any more
C39_OpcionEjecuta ==
    /\ EnComando
    /\ HabiaPendiente
    /\ llamada.pendiente.nombre \in {"actualiza", "elimina"}
    /\ UpperTexto(RespuestaDada) \in Opciones
    /\ glosario # llamada.antes
    /\ comandos.confirmacion_pendiente = SinConfirmacion

\* (holds) the protocol of C39 on every input that is not one of the option
\* letters A, B, C
C39_SinOpciones ==
    (EnComando /\ UpperTexto(RespuestaDada) \notin Opciones) => C39_Confirmacion

\* (reachable) an affirmative answer with an accent and a leading space
\* runs a pending ACTUALIZA
C39_Afirmativa ==
    /\ EnComando
    /\ HabiaPendiente
    /\ llamada.entrada = TxtSiAcento
    /\ llamada.res.mensaje = "actualizado"
    /\ glosario.entradas["nafs"].token_tgt \in {"razon", "alma"}

=============================================================================
